---- MODULE Spec2Model ----
(***************************************************************************)
(* A model of k8s-gpu-device-plugin: the device inventory                  *)
(* (device/devices.go), the per-resource device plugin server and its      *)
(* allocation policies (package plugin, NvidiaDevicePlugin).               *)
(*                                                                         *)
(* Strings whose contents the code inspects (device ids, topology          *)
(* indices) are sequences of one-character strings, so that the "::"       *)
(* separator handling of AnnotatedID is computed, not assumed.             *)
(***************************************************************************)
EXTENDS Integers, Sequences, FiniteSets, TLC

VARIABLES
    devices,      \* plugin.devices: id -> Device (device.Devices)
    call,         \* the protocol call being served (arguments), or NoCall
    candidates,   \* distributedAlloc: local `candidates`
    replicas,     \* distributedAlloc: local `replicas`, base id -> {total, available}
    picked,       \* distributedAlloc: local `devices` (the ids selected so far)
    step,         \* distributedAlloc: loop counter i
    last,         \* ghost: the last selection step of distributedAlloc
    ret,          \* the value returned by the last call
    grpc,         \* plugin.server (grpc.Server): "new", "serving" or "stopped"
    service,      \* the DevicePlugin service is registered on plugin.server
    listener,     \* `sock` of Serve: "none", "open" or "closed"
    sockFile,     \* the file plugin.socket exists
    stopCh,       \* plugin.stop: "open" or "closed"
    registered,   \* the node agent holds a registration of this endpoint
    startPC,      \* where the running Start call is: "idle", "dial", "register"
    loop,         \* the serving goroutine of Serve: its position and restartCount
    sessions,     \* the ListAndWatch calls, by session
    events,       \* number of values received from plugin.health so far
    crashed,      \* the process: "no", "panic" (runtime panic) or "fatal" (Logger.Fatal)
    lastStart,    \* ghost: how the last Start call ended
    lastStop,     \* ghost: how the last Stop call ended
    sinceCrash,   \* serving goroutine: time since lastCrashTime, in ticks (capped)
    crashLog,     \* ghost: the transport failures of the serving goroutine so far
    manager,      \* the PluginManager: its fields and the position of Start
    plugins,      \* p.plugins: the servers of the manager, in list order
    history,      \* ghost: what the manager has done so far
    iter,         \* ghost: the last iteration of the manager's loop, its trigger and what it ran
    build,        \* a Device Map build: its inputs, its position and its map
    anno          \* an id being annotated with a replica index and split again

allocVars == <<call, candidates, replicas, picked, step, last, ret>>

pluginVars == <<grpc, service, listener, sockFile, stopCh, registered, startPC, loop, crashed>>

ghostVars == <<lastStart, lastStop>>

serverVars == <<pluginVars, sessions, events, ghostVars>>

clockVars == <<sinceCrash, crashLog>>

managerVars == <<manager, plugins, history, iter>>

buildVars == <<build, anno>>

supVars == <<clockVars, managerVars, buildVars>>

vars == <<devices, allocVars, serverVars, supVars>>

----------------------------------------------------------------------------
(* Generic helpers on sequences *)

Range(s) == {s[i] : i \in 1..Len(s)}

RECURSIVE Reverse(_)
Reverse(s) == IF s = <<>> THEN <<>> ELSE Append(Reverse(Tail(s)), Head(s))

\* the subsequence of s made of its elements that satisfy keep
RECURSIVE Filter(_, _)
Filter(s, keep) ==
    IF s = <<>> THEN <<>>
    ELSE (IF Head(s) \in keep THEN <<Head(s)>> ELSE <<>>) \o Filter(Tail(s), keep)

----------------------------------------------------------------------------
(* device/devices.go: replica-annotated ids *)

Digits == <<"0", "1", "2", "3", "4", "5", "6", "7", "8", "9">>

DigitVal(c) == (CHOOSE i \in 1..10 : Digits[i] = c) - 1

IsDigit(c) == \E i \in 1..10 : Digits[i] = c

\* strings.SplitN(s, "::", 2): the position of the first "::" in s, 0 if none
SepIndex(s) ==
    LET hits == {i \in 1..(Len(s) - 1) : s[i] = ":" /\ s[i + 1] = ":"}
    IN  IF hits = {} THEN 0 ELSE CHOOSE i \in hits : \A j \in hits : i <= j

SplitN2(s) ==
    LET i == SepIndex(s)
    IN  IF i = 0 THEN <<s>>
        ELSE <<SubSeq(s, 1, i - 1), SubSeq(s, i + 2, Len(s))>>

\* the value of a non-empty run of decimal digits
RECURSIVE DecValue(_)
DecValue(s) ==
    IF s = <<>> THEN 0
    ELSE 10 * DecValue(SubSeq(s, 1, Len(s) - 1)) + DigitVal(s[Len(s)])

\* strconv.ParseInt(s, 10, 0) with the error dropped: 0 on a syntax error
ParseInt(s) ==
    LET signed == s # <<>> /\ s[1] \in {"+", "-"}
        body   == IF signed THEN Tail(s) ELSE s
    IN  IF body = <<>> \/ \E i \in 1..Len(body) : ~IsDigit(body[i]) THEN 0
        ELSE IF signed /\ s[1] = "-" THEN 0 - DecValue(body)
        ELSE DecValue(body)

\* AnnotatedID.Split
Split(r) ==
    LET split == SplitN2(r)
    IN  IF Len(split) # 2 THEN <<r, 0>> ELSE <<split[1], ParseInt(split[2])>>

\* AnnotatedID.GetID
GetID(r) == Split(r)[1]

\* AnnotatedID.HasAnnotations
HasAnnotations(r) == Len(SplitN2(r)) = 2

\* AnnotatedIDs.AnyHasAnnotations
AnyHasAnnotations(rs) == \E i \in 1..Len(rs) : HasAnnotations(rs[i])

----------------------------------------------------------------------------
(* device/devices.go: the inventory, a Go map from id to *Device *)

Healthy == "Healthy"

Unhealthy == "Unhealthy"

\* (mutant) only the first id is looked up
ContainsFirst(ds, ids) == ids = <<>> \/ ids[1] \in DOMAIN ds

\* Devices.Contains: every id of the list is a key of ds
Contains(ds, ids) == \A i \in 1..Len(ids) : ids[i] \in DOMAIN ds

\* Devices.Subset: the devices of ds whose id is listed
Subset(ds, ids) == [id \in {x \in Range(ids) : Contains(ds, <<x>>)} |-> ds[id]]

\* Devices.Difference: the devices of ds that ods does not contain
Difference(ds, ods) == [id \in {x \in DOMAIN ds : ~Contains(ods, <<x>>)} |-> ds[id]]

\* Devices.GetIDs: d.ID of every device. It ranges over a Go map, whose
\* iteration order is unspecified, so the slice it returns carries no order:
\* it is modelled as the set of its elements
GetIDs(ds) == {ds[k].ID : k \in DOMAIN ds}

\* Device.IsMigDevice: strings.Contains(d.Index, ":")
IsMigDevice(d) == \E i \in 1..Len(d.Index) : d.Index[i] = ":"

\* Device.AlignedAllocationSupported
DeviceAlignedAllocationSupported(d) ==
    IF IsMigDevice(d) THEN FALSE
    ELSE IF \E i \in 1..Len(d.Paths) : d.Paths[i] = "/dev/dxg" THEN FALSE
    ELSE TRUE

\* Devices.AlignedAllocationSupported
AlignedAllocationSupported(ds) ==
    \A k \in DOMAIN ds : DeviceAlignedAllocationSupported(ds[k])

----------------------------------------------------------------------------
(* The inventories and requests the model ranges over *)

NumReplicas == 4       \* replicas of each base id in the replicated inventory
MaxUnavailable == 1    \* ids of the id universe that a request's `available` may lack
MaxRequired == 2       \* length of a request's `required`
MaxSize == 3           \* a request's allocation size

\* decimal rendering of a natural number (the %d of fmt.Sprintf)
RECURSIVE FormatInt(_)
FormatInt(n) ==
    IF n < 10 THEN <<Digits[n + 1]>> ELSE Append(FormatInt(n \div 10), Digits[(n % 10) + 1])

\* NewAnnotatedID: fmt.Sprintf("%s::%d", id, replica)
NewAnnotatedID(id, replica) == id \o <<":", ":">> \o FormatInt(replica)

\* BuildDevice: the fields of Device the plugin server reads
Device(id, index, paths) == [ID |-> id, Health |-> Healthy, Index |-> index, Paths |-> paths]

\* two whole GPUs
WholeListing ==
    << Device(<<"a">>, <<"0">>, <<"/dev/nvidia0">>),
       Device(<<"b">>, <<"1">>, <<"/dev/nvidia1">>) >>

\* two sub-partitions of GPU 0 (topology index i:j)
MigListing ==
    << Device(<<"m">>, <<"0", ":", "0">>, <<"/dev/nvidia0", "/dev/nvidia-caps/nvidia-cap1", "/dev/nvidia-caps/nvidia-cap2">>),
       Device(<<"n">>, <<"0", ":", "1">>, <<"/dev/nvidia0", "/dev/nvidia-caps/nvidia-cap3", "/dev/nvidia-caps/nvidia-cap4">>) >>

\* two GPUs, each shared as NumReplicas replica-annotated ids
ReplicaListing(base, index, path) ==
    [r \in 1..NumReplicas |-> Device(NewAnnotatedID(base, r - 1), index, <<path>>)]

ReplicatedListing ==
    ReplicaListing(<<"a">>, <<"0">>, "/dev/nvidia0") \o ReplicaListing(<<"b">>, <<"1">>, "/dev/nvidia1")

\* two GPUs seen through WSL: every device path is the sentinel /dev/dxg
WslListing ==
    << Device(<<"w">>, <<"0">>, <<"/dev/dxg">>),
       Device(<<"x">>, <<"1">>, <<"/dev/dxg">>) >>

Listings == {WholeListing, MigListing, ReplicatedListing, WslListing}

\* DeviceMap.setEntry: d[name][dev.ID] = dev
ToDevices(listing) == [id \in {listing[i].ID : i \in 1..Len(listing)} |->
                          (CHOOSE d \in Range(listing) : d.ID = id)]

ListingOf(ds) == CHOOSE l \in Listings : DOMAIN ToDevices(l) = DOMAIN ds

\* an id no inventory holds
UnknownID == <<"z">>

\* the id universe of requests against ds: its ids in enumeration order, then UnknownID
Universe(ds) == [i \in 1..Len(ListingOf(ds)) |-> ListingOf(ds)[i].ID] \o <<UnknownID>>

AvailableLists(ds) ==
    LET u == Universe(ds)
        kept == {K \in SUBSET Range(u) : Cardinality(Range(u) \ K) <= MaxUnavailable}
    IN  {Filter(u, K) : K \in kept} \cup {Reverse(Filter(u, K)) : K \in kept}

RequiredLists(ds) ==
    LET u == Universe(ds)
        pool == <<u[1], u[2], UnknownID>>
    IN  {Filter(pool, K) : K \in {K \in SUBSET Range(pool) : Cardinality(K) <= MaxRequired}}

Sizes == 0..MaxSize

MaxContainers == 2     \* container requests of one Allocate call

\* the id lists of a container request of Allocate
IDLists(ds) ==
    LET u == Universe(ds)
    IN  {<<>>, <<u[1]>>, <<u[1], u[2]>>, <<u[2], u[1]>>, <<UnknownID>>, <<u[2], UnknownID>>}

RECURSIVE SeqsUpTo(_, _)
SeqsUpTo(S, n) ==
    IF n = 0 THEN {<<>>}
    ELSE SeqsUpTo(S, n - 1) \cup {Append(q, x) : q \in SeqsUpTo(S, n - 1), x \in S}

ContainerRequests(ds) == SeqsUpTo(IDLists(ds), MaxContainers)

----------------------------------------------------------------------------
(* package plugin: preferred allocation (NvidiaDevicePlugin) *)

NoCall == [op |-> "none", pc |-> "idle"]

NoStep == [n |-> 0]

Error == [err |-> TRUE]

Ok(ids) == [err |-> FALSE, ids |-> ids]

\* idiff / jdiff of the sort.Slice comparison: total - available of the id's base
Skew(reps, id) == reps[GetID(id)].total - reps[GetID(id)].available

\* the comparison function given to sort.Slice
Less(reps, ci, cj) == Skew(reps, ci) < Skew(reps, cj)

\* (mutant) the first candidate is taken without sorting
UnsortedFirst(cands, reps) == cands

\* candidates[0] after sort.Slice(candidates, Less). The slice comes out of a
\* map iteration and sort.Slice is not stable, so the first element is any
\* candidate that no other candidate is Less than
SortedFirst(cands, reps) == {c \in cands : \A d \in cands : ~Less(reps, d, c)}

\* the two loops that fill `replicas`: available counts the candidates of a
\* base id, total counts the devices of the inventory with that base id
CountReplicas(ds, cands) ==
    [b \in {GetID(c) : c \in cands} |->
        [available |-> Cardinality({c \in cands : GetID(c) = b}),
         total     |-> Cardinality({d \in DOMAIN ds : GetID(d) = b})]]

\* candidates of distributedAlloc
Candidates(ds, available, required) ==
    GetIDs(Difference(Subset(ds, available), Subset(ds, required)))

\* gpuallocator (external): linkedDevices.Filter(uuids) fails on an id that is
\* no GPU of the node
LinkedFilterFails(ds, uuids) == \E i \in 1..Len(uuids) : uuids[i] \notin DOMAIN ds

\* gpuallocator.NewBestEffortPolicy().Allocate (external): some list of
\* available devices, at most `size` of them; never an error
BestEffortResults(available, size) ==
    {Filter(available, K) : K \in {K \in SUBSET Range(available) : Cardinality(K) <= size}}

\* (mutant) the device paths are not looked at
UseAlignedAnyPath(ds, available) ==
    (\A k \in DOMAIN ds : ~IsMigDevice(ds[k])) /\ ~AnyHasAnnotations(available)

\* getPreferredAllocation: which policy serves the request
UseAligned(ds, available) == AlignedAllocationSupported(ds) /\ ~AnyHasAnnotations(available)

\* alignedAlloc: its possible returns
AlignedAlloc(ds, available, required, size) ==
    {Error}   \* gpuallocator.NewDevices failed
    \cup (IF LinkedFilterFails(ds, available) \/ LinkedFilterFails(ds, required)
          THEN {Error}
          ELSE {Ok(r) : r \in BestEffortResults(available, size)})

\* getPreferredAllocation for one container request, up to the selection loop
GetPreferredAllocation(available, required, size) ==
    /\ call.pc = "idle"
    /\ last' = NoStep
    /\ IF UseAligned(devices, available)
       THEN /\ call' = [op |-> "preferred", pc |-> "done", policy |-> "aligned",
                        available |-> available, required |-> required, size |-> size]
            /\ ret' \in AlignedAlloc(devices, available, required, size)
            /\ candidates' = {} /\ replicas' = << >> /\ picked' = <<>> /\ step' = 0
       ELSE LET cands  == Candidates(devices, available, required)
                needed == size - Len(required)
            IN  IF Cardinality(cands) < needed
                THEN /\ call' = [op |-> "preferred", pc |-> "done", policy |-> "distributed",
                                 available |-> available, required |-> required, size |-> size]
                     /\ ret' = Error
                     /\ candidates' = cands /\ replicas' = << >> /\ picked' = <<>> /\ step' = 0
                ELSE /\ call' = [op |-> "preferred", pc |-> "loop", policy |-> "distributed",
                                 available |-> available, required |-> required, size |-> size]
                     /\ ret' = NoCall
                     /\ candidates' = cands
                     /\ replicas' = CountReplicas(devices, cands)
                     /\ picked' = <<>>
                     /\ step' = 0
    /\ UNCHANGED <<supVars, devices, serverVars>>

Needed == call.size - Len(call.required)

\* one iteration of the selection loop of distributedAlloc
DistributedAllocStep ==
    /\ call.pc = "loop"
    /\ step < Needed
    /\ \E c \in SortedFirst(candidates, replicas) :
          /\ replicas' = [replicas EXCEPT ![GetID(c)].available = @ - 1]
          /\ picked' = Append(picked, c)
          /\ candidates' = candidates \ {c}
          /\ last' = [n |-> step + 1, id |-> c, before |-> replicas, among |-> candidates]
    /\ step' = step + 1
    /\ UNCHANGED <<supVars, devices, call, ret, serverVars>>

\* the end of distributedAlloc: devices = append(required, devices...)
DistributedAllocReturn ==
    /\ call.pc = "loop"
    /\ ~(step < Needed)
    /\ ret' = Ok(call.required \o picked)
    /\ call' = [call EXCEPT !.pc = "done"]
    /\ UNCHANGED <<supVars, devices, candidates, replicas, picked, step, last, serverVars>>

\* the handler has returned: its locals are gone, the server takes the next call
Respond ==
    /\ call.pc = "done"
    /\ call' = NoCall
    /\ candidates' = {} /\ replicas' = << >> /\ picked' = <<>> /\ step' = 0
    /\ last' = NoStep
    /\ ret' = NoCall
    /\ UNCHANGED <<supVars, devices, serverVars>>

\* strings.Join(elems, sep) on character sequences
RECURSIVE Join(_, _)
Join(elems, sep) ==
    IF elems = <<>> THEN <<>>
    ELSE IF Len(elems) = 1 THEN elems[1]
    ELSE elems[1] \o sep \o Join(Tail(elems), sep)

\* the ContainerAllocateResponse built for one container request
ContainerAllocateResponse(ids) == [Envs |-> [NVIDIA_VISIBLE_DEVICES |-> Join(ids, <<",">>)]]

\* the loop of Allocate over reqs.ContainerRequests: the first request with an
\* id the inventory does not contain ends the call with (nil, error)
RECURSIVE AllocateLoop(_, _, _)
AllocateLoop(ds, reqs, responses) ==
    IF reqs = <<>> THEN [err |-> FALSE, responses |-> responses]
    ELSE IF ~Contains(ds, Head(reqs)) THEN Error
    ELSE AllocateLoop(ds, Tail(reqs), Append(responses, ContainerAllocateResponse(Head(reqs))))

\* (mutant) Allocate marks the devices it hands out
AllocateMarking(reqs) ==
    /\ call.pc = "idle"
    /\ call' = [op |-> "allocate", pc |-> "done", reqs |-> reqs]
    /\ ret' = AllocateLoop(devices, reqs, <<>>)
    /\ devices' = [k \in DOMAIN devices |->
                      IF \E i \in 1..Len(reqs) : \E j \in 1..Len(reqs[i]) : reqs[i][j] = k
                      THEN [devices[k] EXCEPT !.Health = Unhealthy] ELSE devices[k]]
    /\ UNCHANGED <<supVars, candidates, replicas, picked, step, last, serverVars>>

\* NvidiaDevicePlugin.Allocate
Allocate(reqs) ==
    /\ call.pc = "idle"
    /\ call' = [op |-> "allocate", pc |-> "done", reqs |-> reqs]
    /\ ret' = AllocateLoop(devices, reqs, <<>>)
    /\ UNCHANGED <<supVars, devices, candidates, replicas, picked, step, last, serverVars>>

AllocateCall ==
    /\ call.pc = "idle"
    /\ \E reqs \in ContainerRequests(devices) : Allocate(reqs)

PreferredCall ==
    /\ call.pc = "idle"
    /\ \E available \in AvailableLists(devices), required \in RequiredLists(devices), size \in Sizes :
          GetPreferredAllocation(available, required, size)

----------------------------------------------------------------------------
(* package plugin: the device plugin server (NvidiaDevicePlugin) *)

NumSessions == 2        \* ListAndWatch sessions of one server
MaxHealthEvents == 1    \* values received from plugin.health in one run

SessionIDs == 1..NumSessions

\* sent: the device lists sent; received: the health events received;
\* seen (ghost): the health of every device when each list was sent
NoSession == [pc |-> "none", cancelled |-> FALSE, sent |-> <<>>, received |-> 0, seen |-> <<>>]

HealthOf(ds) == [k \in DOMAIN ds |-> ds[k].Health]

NoStart == [result |-> "none", failedAt |-> "none", attempted |-> FALSE,
            halted |-> FALSE, removed |-> FALSE]

NoStop == [result |-> "none", onStopped |-> FALSE, onServing |-> FALSE, changed |-> FALSE,
           halted |-> FALSE, removed |-> FALSE, inFlight |-> {}]

\* NewNvidiaDevicePlugin: the server, the health and the stop channel are made
\* here, once for the life of the instance
NewNvidiaDevicePlugin ==
    /\ grpc = "new"
    /\ service = FALSE
    /\ listener = "none"
    /\ sockFile = FALSE
    /\ stopCh = "open"
    /\ registered = FALSE
    /\ startPC = "idle"
    /\ loop = [pc |-> "none", restartCount |-> 0]
    /\ crashed = "no"

Running == crashed = "no"

\* the endpoint is open and plugin.server accepts protocol calls on it
Accepting == listener = "open" /\ grpc = "serving" /\ loop.pc = "serving"

\* the state of the server in the terms of the state machine
\* Stopped -> Serving -> Registered -> Stopped
State ==
    IF ~Running THEN "Stopped"
    ELSE IF registered THEN "Registered"
    ELSE IF Accepting THEN "Serving"
    ELSE "Stopped"

\* (mutant) unhealthy devices are left out of the list
HealthyPluginDevices(ds) ==
    {[ID |-> ds[k].ID, Health |-> ds[k].Health] : k \in {k \in DOMAIN ds : ds[k].Health = Healthy}}

\* Devices.GetPluginDevices: the pluginapi.Device (id and health) of every
\* device; the slice comes out of a map iteration, so it is kept as a set
GetPluginDevices(ds) == {[ID |-> ds[k].ID, Health |-> ds[k].Health] : k \in DOMAIN ds}

\* (mutant) cleanup leaves plugin.stop open
CleanupKeepsOpen == UNCHANGED <<stopCh, crashed>>

\* cleanup: close(plugin.stop); closing a closed channel panics
Cleanup ==
    IF stopCh = "closed"
    THEN /\ crashed' = "panic"
         /\ UNCHANGED stopCh
    ELSE /\ stopCh' = "closed"
         /\ UNCHANGED crashed

\* plugin.server.Stop(): the server stops for good, and closes the listeners
\* it serves
GrpcStop ==
    /\ grpc' = "stopped"
    /\ listener' = IF listener = "open" /\ loop.pc = "serving" THEN "closed" ELSE listener

\* the body of Stop, for a removal of the socket file that ends as `removal`:
\* "ok", "notexist" or "error"
StopBody(removal) ==
    /\ GrpcStop
    /\ registered' = FALSE
    /\ IF removal = "error"
       THEN UNCHANGED <<sockFile, stopCh, crashed>>     \* return err
       ELSE /\ sockFile' = FALSE
            /\ Cleanup

\* the outcomes os.Remove(plugin.socket) can have
Removals == IF sockFile THEN {"ok", "error"} ELSE {"notexist"}

\* what a caller can observe of the instance
Observable == <<grpc, listener, sockFile, stopCh, registered>>

\* NvidiaDevicePlugin.Stop (plugin and plugin.server are never nil)
Stop ==
    /\ Running /\ startPC = "idle"
    /\ \E removal \in Removals :
          /\ StopBody(removal)
          /\ lastStop' = [result    |-> IF crashed' = "panic" THEN "panic"
                                        ELSE IF removal = "error" THEN "err" ELSE "ok",
                          onStopped |-> State = "Stopped",
                          onServing |-> Accepting,
                          changed   |-> Observable' # Observable,
                          halted    |-> grpc' = "stopped" /\ listener' # "open",
                          removed   |-> ~sockFile',
                          inFlight  |-> IF Accepting
                                        THEN {s \in SessionIDs : sessions[s].pc \in {"initial", "watching"}}
                                        ELSE {}]
    /\ UNCHANGED <<supVars, devices, allocVars, service, startPC, loop, sessions, events, lastStart>>

\* Start, first part: Serve up to the dial of the plugin's own socket
\* (os.Remove, net.Listen, RegisterDevicePluginServer, go func).
\* grpc.Server.RegisterService is fatal after Serve or for a service that is
\* registered already.
StartServe ==
    /\ Running /\ startPC = "idle"
    /\ lastStop' = lastStop
    /\ \E listened \in BOOLEAN :
          IF ~listened
          THEN /\ Cleanup
               /\ sockFile' = FALSE
               /\ lastStart' = [NoStart EXCEPT !.result = IF crashed' = "panic" THEN "panic" ELSE "err",
                                               !.failedAt = "listen"]
               /\ UNCHANGED <<grpc, service, listener, registered, startPC, loop>>
          ELSE /\ sockFile' = TRUE
               /\ listener' = "open"
               /\ lastStart' = NoStart
               /\ IF service
                  THEN /\ crashed' = "fatal"
                       /\ UNCHANGED <<grpc, service, stopCh, registered, startPC, loop>>
                  ELSE /\ service' = TRUE
                       /\ loop' = [pc |-> "run", restartCount |-> 0]
                       /\ startPC' = "dial"
                       /\ UNCHANGED <<grpc, stopCh, registered, crashed>>
    /\ UNCHANGED <<supVars, devices, allocVars, sessions, events>>

\* (mutant) a dial that does not block until the connection is up
DialReturnsAtOnce == TRUE

\* plugin.dial(plugin.socket, 5s) with grpc.WithBlock: it returns a connection
\* only if the server accepts it
DialConnects == Accepting

\* Start, second part: the dial of Serve returns; on a failure Start calls
\* cleanup and returns the error
StartDial ==
    /\ Running /\ startPC = "dial"
    /\ \/ /\ DialConnects
          /\ startPC' = "register"
          /\ UNCHANGED <<stopCh, crashed, lastStart>>
       \/ /\ Cleanup
          /\ startPC' = "idle"
          /\ lastStart' = [NoStart EXCEPT !.result = IF crashed' = "panic" THEN "panic" ELSE "err",
                                          !.failedAt = "dial"]
    /\ UNCHANGED <<supVars, devices, allocVars, grpc, service, listener, sockFile, registered, loop,
                   sessions, events, lastStop>>

\* Start, last part: Register has ended with outcome; on a failure Start
\* calls Stop and returns the joined errors
RegisterReturns(outcome) ==
    /\ startPC' = "idle"
    /\ IF outcome = "ok"
       THEN /\ registered' = TRUE
            /\ lastStart' = [NoStart EXCEPT !.result = "ok", !.attempted = TRUE]
            /\ UNCHANGED <<grpc, listener, sockFile, stopCh, crashed>>
       ELSE /\ \E removal \in Removals : StopBody(removal)
            /\ lastStart' = [result    |-> IF crashed' = "panic" THEN "panic" ELSE "err",
                             failedAt  |-> "register",
                             attempted |-> outcome = "callfail",
                             halted    |-> grpc' = "stopped" /\ listener' # "open",
                             removed   |-> ~sockFile']

\* Start, last part: Register (dial of the node agent within 5 s, then the
\* Register call under context.Background()).  The node agent answers the
\* call, or the dial or the call fails, or ("silent") the node agent has
\* accepted the connection and has not answered: the call waits
StartRegister ==
    /\ Running /\ startPC = "register"
    /\ \E outcome \in {"ok", "dialfail", "callfail", "silent"} :
          IF outcome = "silent"
          THEN /\ startPC' = "call"
               /\ UNCHANGED <<grpc, listener, sockFile, stopCh, crashed, registered, lastStart>>
          ELSE RegisterReturns(outcome)
    /\ UNCHANGED <<supVars, devices, allocVars, service, loop, sessions, events, lastStop>>

\* the node agent answers the Register call that waits for it
RegisterAnswer ==
    /\ Running /\ startPC = "call"
    /\ \E outcome \in {"ok", "callfail"} : RegisterReturns(outcome)
    /\ UNCHANGED <<supVars, devices, allocVars, service, loop, sessions, events, lastStop>>

\* the goroutine of Serve, at the top of its loop: more than 5 counted
\* restarts are fatal; plugin.server.Serve(sock) on a stopped server closes
\* sock and returns ErrServerStopped, which counts as a crash (the counter
\* restarts from 0 if the last crash is more than an hour old)
LoopServe ==
    /\ Running /\ loop.pc = "run"
    /\ IF loop.restartCount > 5
       THEN /\ crashed' = "fatal"
            /\ UNCHANGED <<grpc, listener, loop>>
       ELSE IF grpc = "stopped"
       THEN /\ listener' = "closed"
            /\ \E hourPassed \in BOOLEAN :
                  loop' = [loop EXCEPT !.restartCount = IF hourPassed THEN 0 ELSE @ + 1]
            /\ UNCHANGED <<grpc, crashed>>
       ELSE /\ grpc' = "serving"
            /\ loop' = [loop EXCEPT !.pc = "serving"]
            /\ UNCHANGED <<listener, crashed>>
    /\ UNCHANGED <<supVars, devices, allocVars, service, sockFile, stopCh, registered, startPC,
                   sessions, events, ghostVars>>

\* plugin.server.Serve returns nil once the server was stopped: break
LoopExit ==
    /\ Running /\ loop.pc = "serving" /\ grpc = "stopped"
    /\ loop' = [loop EXCEPT !.pc = "exited"]
    /\ UNCHANGED <<supVars, devices, allocVars, grpc, service, listener, sockFile, stopCh, registered,
                   startPC, crashed, sessions, events, ghostVars>>

\* s.Send fails on a stream the client cancelled or the server closed
SendFails(s) == sessions[s].cancelled \/ grpc # "serving"

\* the node agent opens a ListAndWatch stream (sessions are numbered in the
\* order they are opened)
ListAndWatchOpen(s) ==
    /\ Running /\ Accepting
    /\ sessions[s].pc = "none"
    /\ \A t \in SessionIDs : t < s => sessions[t].pc # "none"
    /\ sessions' = [sessions EXCEPT ![s].pc = "initial"]
    /\ UNCHANGED <<supVars, devices, allocVars, pluginVars, events, ghostVars>>

\* the client side of a stream goes away
ListAndWatchCancel(s) ==
    /\ Running
    /\ sessions[s].pc \in {"initial", "watching"}
    /\ ~sessions[s].cancelled
    /\ sessions' = [sessions EXCEPT ![s].cancelled = TRUE]
    /\ UNCHANGED <<supVars, devices, allocVars, pluginVars, events, ghostVars>>

\* ListAndWatch: the first Send
ListAndWatchFirst(s) ==
    /\ Running
    /\ sessions[s].pc = "initial"
    /\ sessions' = IF SendFails(s)
                   THEN [sessions EXCEPT ![s].pc = "ended"]
                   ELSE [sessions EXCEPT ![s].pc = "watching",
                                         ![s].sent = Append(@, GetPluginDevices(devices)),
                                         ![s].seen = Append(@, HealthOf(devices))]
    /\ UNCHANGED <<supVars, devices, allocVars, pluginVars, events, ghostVars>>

\* ListAndWatch: case <-plugin.stop
ListAndWatchStopped(s) ==
    /\ Running
    /\ sessions[s].pc = "watching"
    /\ stopCh = "closed"
    /\ sessions' = [sessions EXCEPT ![s].pc = "ended"]
    /\ UNCHANGED <<supVars, devices, allocVars, pluginVars, events, ghostVars>>

\* (mutant) the value is delivered to every watching session
ListAndWatchHealthToAll(s, d) ==
    /\ Running
    /\ sessions[s].pc = "watching"
    /\ events < MaxHealthEvents
    /\ events' = events + 1
    /\ devices' = [devices EXCEPT ![d].Health = Unhealthy]
    /\ sessions' = [t \in DOMAIN sessions |->
                      IF sessions[t].pc # "watching" THEN sessions[t]
                      ELSE [sessions[t] EXCEPT !.received = @ + 1,
                                               !.sent = Append(@, GetPluginDevices(devices')),
                                               !.seen = Append(@, HealthOf(devices'))]]
    /\ UNCHANGED <<supVars, allocVars, pluginVars, ghostVars>>

\* ListAndWatch: case d := <-plugin.health, for the device d received
ListAndWatchHealth(s, d) ==
    /\ Running
    /\ sessions[s].pc = "watching"
    /\ events < MaxHealthEvents
    /\ events' = events + 1
    /\ devices' = [devices EXCEPT ![d].Health = Unhealthy]
    /\ sessions' = IF SendFails(s)
                   THEN [sessions EXCEPT ![s].pc = "ended", ![s].received = @ + 1]
                   ELSE [sessions EXCEPT ![s].received = @ + 1,
                                         ![s].sent = Append(@, GetPluginDevices(devices')),
                                         ![s].seen = Append(@, HealthOf(devices'))]
    /\ UNCHANGED <<supVars, allocVars, pluginVars, ghostVars>>

ListAndWatch(s) ==
    \/ ListAndWatchOpen(s)
    \/ ListAndWatchCancel(s)
    \/ ListAndWatchFirst(s)
    \/ ListAndWatchStopped(s)
    \/ \E d \in DOMAIN devices : ListAndWatchHealth(s, d)

AllocIdle ==
    /\ call = NoCall
    /\ candidates = {}
    /\ replicas = << >>
    /\ picked = <<>>
    /\ step = 0
    /\ last = NoStep
    /\ ret = NoCall

ServerIdle ==
    /\ NewNvidiaDevicePlugin
    /\ sessions = [s \in SessionIDs |-> NoSession]
    /\ events = 0
    /\ lastStart = NoStart
    /\ lastStop = NoStop

\* no serving goroutine is timed and no manager exists
NoCrashLog == [ages |-> <<>>, n |-> 0, spaced |-> TRUE, six |-> FALSE]

ClockIdle ==
    /\ sinceCrash = 0
    /\ crashLog = NoCrashLog

\* no manager has been constructed
NoManager == [pc |-> "none"]

NoPass == [kind |-> "none", failed |-> FALSE, attempted |-> {}, nonEmpty |-> {}, started |-> 0]

NoHistory ==
    [passes |-> 0, okPasses |-> 0, retries |-> 0, restarts |-> 0, rounds |-> 0,
     pass |-> NoPass, load |-> [result |-> "none", pass |-> FALSE],
     retiredLive |-> FALSE, readyFired |-> 0, readyPanic |-> FALSE, died |-> "no"]

\* the event of an iteration that received none
NoEvent == [name |-> "", op |-> {}]

\* no iteration of the loop has run
NoIter ==
    [trigger |-> "none", event |-> NoEvent, ran |-> "none", rebuilt |-> FALSE, changed |-> FALSE,
     asked |-> FALSE, lastFailed |-> FALSE]

ManagerIdle ==
    /\ manager = NoManager
    /\ plugins = <<>>
    /\ history = NoHistory
    /\ iter = NoIter

\* no Device Map build is under way
NoBuild == [pc |-> "idle"]

NoAnno == [pc |-> "idle"]

BuildIdle == build = NoBuild /\ anno = NoAnno

SupIdle == ClockIdle /\ ManagerIdle /\ BuildIdle

ServerInit ==
    /\ devices = ToDevices(WholeListing)
    /\ AllocIdle
    /\ ServerIdle
    /\ SupIdle

ServerNext ==
    \/ StartServe
    \/ StartDial
    \/ StartRegister
    \/ RegisterAnswer
    \/ Stop
    \/ LoopServe
    \/ LoopExit
    \/ \E s \in SessionIDs : ListAndWatch(s)

ServerSpec == ServerInit /\ [][ServerNext]_vars

\* every goroutine that can take a step eventually takes one
ServerFairSpec ==
    /\ ServerSpec
    /\ WF_vars(LoopServe)
    /\ WF_vars(LoopExit)
    /\ \A s \in SessionIDs : WF_vars(ListAndWatchFirst(s)) /\ WF_vars(ListAndWatchStopped(s))

\* moreover a running Start call takes its next step: the dial of Serve
\* ends within its 5 s, and so does the dial of Register.  Nothing makes the
\* node agent answer
ServerStartFairSpec ==
    /\ ServerFairSpec
    /\ WF_vars(StartDial)
    /\ WF_vars(StartRegister)

----------------------------------------------------------------------------
(* The protocol calls on a server's inventory *)

AllocInit ==
    /\ devices \in {ToDevices(l) : l \in Listings}
    /\ AllocIdle
    /\ ServerIdle
    /\ SupIdle

AllocNext ==
    \/ PreferredCall
    \/ AllocateCall
    \/ DistributedAllocStep
    \/ DistributedAllocReturn
    \/ Respond

AllocSpec == AllocInit /\ [][AllocNext]_vars

----------------------------------------------------------------------------
(* Claims on the allocation calls (checked under AllocSpec) *)

Returned(op) == call.op = op /\ call.pc = "done"

DistributedReturned == Returned("preferred") /\ call.policy = "distributed"

\* C1: whenever distributedAlloc returns without error, the returned list has
\* exactly `size` ids and holds every id of `required`, also when size is
\* smaller than the number of required ids or a required id is not available.
C1_ExactCountWithRequired ==
    (DistributedReturned /\ ~ret.err) =>
        /\ Len(ret.ids) = call.size
        /\ Range(call.required) \subseteq Range(ret.ids)

\* C2: a preferred allocation whose size exceeds len(available) fails with an
\* error, under the topology-aligned and under the replica-distributed policy.
C2_FailsBeyondAvailable ==
    (Returned("preferred") /\ call.size > Len(call.available)) => ret.err

BaseOf(ids) == {GetID(ids[i]) : i \in 1..Len(ids)}

\* the ids selected before the step recorded in `last`
PickedBefore == SubSeq(picked, 1, last.n - 1)

\* base ids other than x that still have a candidate and were not selected yet
Unselected(x) == {GetID(d) : d \in last.among} \ (BaseOf(PickedBefore) \cup {x})

SkewOfBase(reps, b) == reps[b].total - reps[b].available

\* the example of the claim: 2 base ids, all their replicas available, nothing
\* required, 3 devices requested
SpreadExample ==
    /\ DistributedReturned
    /\ devices = ToDevices(ReplicatedListing)
    /\ DOMAIN devices \subseteq Range(call.available)
    /\ call.required = <<>>
    /\ call.size = 3

\* C3 (as amended): at every selection step the chosen candidate's base id has
\* the least total - available among the remaining candidates, and its
\* available counter is decremented by one before the next step; hence a base
\* id is never selected again while another base id with a remaining candidate
\* and a strictly smaller total - available has not been selected once; in the
\* example the result never holds 3 replicas of one base id.
C3_LeastLoadedFirst ==
    /\ last.n > 0 =>
          LET x == GetID(last.id)
          IN  /\ \A d \in last.among : Skew(last.before, last.id) <= Skew(last.before, d)
              /\ replicas[x].available = last.before[x].available - 1
              /\ replicas[x].total = last.before[x].total
              /\ \A b \in DOMAIN replicas \ {x} : replicas[b] = last.before[b]
              /\ x \in BaseOf(PickedBefore) =>
                    \A y \in Unselected(x) : ~(SkewOfBase(last.before, y) < SkewOfBase(last.before, x))
    /\ (SpreadExample /\ ~ret.err) => Cardinality(BaseOf(ret.ids)) > 1

\* a 3-device answer to the example request
C3_Witness == SpreadExample /\ ~ret.err /\ Len(ret.ids) = 3 /\ last.n = 3

\* C3 (as stated): a base id is never selected again while another base id
\* with equal or greater remaining slack (an equal or smaller total -
\* available) has not been selected once.
C3_NoReselectOnEqualSlack ==
    (last.n > 0 /\ GetID(last.id) \in BaseOf(PickedBefore)) =>
        \A y \in Unselected(GetID(last.id)) :
            ~(SkewOfBase(last.before, y) <= SkewOfBase(last.before, GetID(last.id)))

\* position of id in the list ids (0 if absent)
Pos(ids, id) ==
    LET hits == {i \in 1..Len(ids) : ids[i] = id}
    IN  IF hits = {} THEN 0 ELSE CHOOSE i \in hits : \A j \in hits : i <= j

\* C4: among the remaining candidates that tie on the smallest total -
\* available, the one that comes first in the `available` input is chosen (so
\* the result is a function of the inventory and the request).
C4_TieByInputOrder ==
    last.n > 0 =>
        \A d \in last.among :
            Skew(last.before, d) = Skew(last.before, last.id) =>
                Pos(call.available, last.id) <= Pos(call.available, d)

\* the fields of s between the commas (the inverse of joining comma-free ids)
RECURSIVE CommaFields(_, _)
CommaFields(s, field) ==
    IF s = <<>> THEN <<field>>
    ELSE IF Head(s) = "," THEN <<field>> \o CommaFields(Tail(s), <<>>)
    ELSE CommaFields(Tail(s), Append(field, Head(s)))

UnknownRequested(reqs) == \E i \in 1..Len(reqs) : \E j \in 1..Len(reqs[i]) : reqs[i][j] \notin DOMAIN devices

\* C5: Allocate fails as a whole, with no response, if any id of any container
\* request is not in the inventory; otherwise it returns one response per
\* container request, in request order, binding NVIDIA_VISIBLE_DEVICES to the
\* requested ids joined by commas in request order.
C5_AllocateValidatesAndBinds ==
    Returned("allocate") =>
        IF UnknownRequested(call.reqs)
        THEN ret = Error
        ELSE /\ ~ret.err
             /\ Len(ret.responses) = Len(call.reqs)
             /\ \A i \in 1..Len(call.reqs) :
                   LET env == ret.responses[i].Envs
                   IN  /\ DOMAIN env = {"NVIDIA_VISIBLE_DEVICES"}
                       /\ IF call.reqs[i] = <<>>
                          THEN env.NVIDIA_VISIBLE_DEVICES = <<>>
                          ELSE CommaFields(env.NVIDIA_VISIBLE_DEVICES, <<>>) = call.reqs[i]

\* a successful Allocate for two containers, one of them asking for two ids
C5_Witness ==
    /\ Returned("allocate") /\ ~ret.err
    /\ Len(call.reqs) = 2 /\ Len(call.reqs[1]) = 2 /\ Len(call.reqs[2]) = 1

----------------------------------------------------------------------------
(* Claims on the server's life cycle (checked under ServerSpec, the liveness *)
(* claims under ServerFairSpec)                                              *)

Transitions ==
    {<<"Stopped", "Serving">>, <<"Serving", "Registered">>,
     <<"Serving", "Stopped">>, <<"Registered", "Stopped">>}

\* C6: the server follows Stopped -> Serving -> Registered -> Stopped: the
\* registration is only issued while the endpoint is open and accepting
\* calls, Registered is only entered from Serving, and Serving and Registered
\* are only left for Stopped (or, from Serving, for Registered).
C6_StateMachine ==
    /\ [](startPC = "register" => Accepting)
    /\ [][State' # State => <<State, State'>> \in Transitions]_vars

\* a server that was registered and then stopped
C6_Witness == lastStart.result = "ok" /\ lastStop.result = "ok" /\ State = "Stopped"

\* C7: if opening the endpoint fails, Start reports the failure and never
\* attempts the registration; if the registration fails, Start halts the
\* server, removes the endpoint and reports the failure.
C7_StartFailureHandling ==
    /\ lastStart.failedAt = "listen" =>
          lastStart.result = "err" /\ ~lastStart.attempted
    /\ lastStart.failedAt = "register" =>
          lastStart.result = "err" /\ lastStart.halted /\ lastStart.removed

\* C8: Stop on a server that is stopped or was never started returns without
\* error or crash and leaves the server as it was.
C8_StopIdempotent ==
    lastStop.onStopped => (lastStop.result = "ok" /\ ~lastStop.changed)

\* the session is over: ListAndWatch returned, or the process is gone
Ended(s) == sessions[s].pc = "ended" \/ ~Running

FullList(h) == {[ID |-> id, Health |-> h[id]] : id \in DOMAIN devices}

\* C10: a watch session first sends the full current device list with the
\* health states; after that it sends one full list per health event it
\* receives and nothing else; it ends only once it is cancelled or the server
\* stops.
C10_InventoryStreaming ==
    \A s \in SessionIDs :
        LET v == sessions[s]
        IN  /\ \A i \in 1..Len(v.sent) : v.sent[i] = FullList(v.seen[i])
            /\ v.pc \in {"none", "initial"} => (v.sent = <<>> /\ v.received = 0)
            /\ v.pc = "watching" => Len(v.sent) = 1 + v.received
            /\ v.pc = "ended" => Len(v.sent) \in {v.received, 1 + v.received}
            /\ v.pc = "ended" => (v.cancelled \/ stopCh = "closed" \/ grpc = "stopped")

\* a running session that has sent the first list and one more for a health event
C10_Witness ==
    \E s \in SessionIDs :
        /\ sessions[s].pc = "watching" /\ sessions[s].received = 1
        /\ Len(sessions[s].sent) = 2
        /\ \E m \in sessions[s].sent[2] : m.Health = Unhealthy

----------------------------------------------------------------------------
(* The serving goroutine of Serve with its clock (crash-loop protection).  *)
(* Time is counted in ticks; TicksPerHour ticks are the 3600 seconds of    *)
(* the code, so an elapsed time of TicksPerHour ticks is not "> 3600".     *)

TicksPerHour == 3

\* no more transport failures than this are followed
MaxFailures == 7

\* the restartCount above which the goroutine gives up
MaxRestartCount == 5

Min(a, b) == IF a < b THEN a ELSE b

\* the ages one tick later; failures older than an hour are forgotten
RECURSIVE Aged(_)
Aged(ages) ==
    IF ages = <<>> THEN <<>>
    ELSE IF Head(ages) + 1 > TicksPerHour THEN Aged(Tail(ages))
    ELSE <<Head(ages) + 1>> \o Aged(Tail(ages))

\* time passes
CrashTick ==
    /\ Running /\ loop.pc \in {"run", "serving"}
    /\ sinceCrash <= TicksPerHour \/ crashLog.ages # <<>>
    /\ sinceCrash' = Min(sinceCrash + 1, TicksPerHour + 1)
    /\ crashLog' = [crashLog EXCEPT !.ages = Aged(@)]
    /\ UNCHANGED <<devices, allocVars, serverVars, managerVars, buildVars>>

\* the top of the loop: if restartCount > 5 { Fatal }; plugin.server.Serve(sock)
CrashLoopTop ==
    /\ Running /\ loop.pc = "run"
    /\ IF loop.restartCount > MaxRestartCount
       THEN /\ crashed' = "fatal"
            /\ UNCHANGED <<grpc, loop>>
       ELSE /\ grpc' = "serving"
            /\ loop' = [loop EXCEPT !.pc = "serving"]
            /\ UNCHANGED crashed
    /\ UNCHANGED <<devices, allocVars, service, listener, sockFile, stopCh, registered, startPC,
                   sessions, events, ghostVars, supVars>>

\* the restartCount after a crash that comes `elapsed` ticks after the last one
\* (or after the start of the goroutine)
CountedRestarts(count, elapsed) == IF elapsed > TicksPerHour THEN 0 ELSE count + 1

\* plugin.server.Serve returns an error: the crash is timed against
\* lastCrashTime and counted
CrashServeFails ==
    /\ Running /\ loop.pc = "serving"
    /\ crashLog.n < MaxFailures
    /\ loop' = [pc |-> "run", restartCount |-> CountedRestarts(loop.restartCount, sinceCrash)]
    /\ sinceCrash' = 0
    /\ crashLog' = [ages   |-> Append(crashLog.ages, 0),
                    n      |-> crashLog.n + 1,
                    spaced |-> crashLog.spaced /\ (crashLog.n = 0 \/ sinceCrash > TicksPerHour),
                    six    |-> crashLog.six \/ Len(crashLog.ages) + 1 >= MaxRestartCount + 1]
    /\ UNCHANGED <<devices, allocVars, grpc, service, listener, sockFile, stopCh, registered,
                   startPC, crashed, sessions, events, ghostVars, managerVars, buildVars>>

\* plugin.server.Serve returns nil (the server was stopped): break
CrashLoopBreak ==
    /\ Running /\ loop.pc = "serving"
    /\ grpc' = "stopped"
    /\ listener' = "closed"
    /\ loop' = [loop EXCEPT !.pc = "exited"]
    /\ UNCHANGED <<devices, allocVars, service, sockFile, stopCh, registered, startPC, crashed,
                   sessions, events, ghostVars, supVars>>

\* the state in which Serve has just started its goroutine
CrashLoopInit ==
    /\ devices = ToDevices(WholeListing)
    /\ AllocIdle
    /\ grpc = "new"
    /\ service = TRUE
    /\ listener = "open"
    /\ sockFile = TRUE
    /\ stopCh = "open"
    /\ registered = FALSE
    /\ startPC = "dial"
    /\ loop = [pc |-> "run", restartCount |-> 0]
    /\ crashed = "no"
    /\ sessions = [s \in SessionIDs |-> NoSession]
    /\ events = 0
    /\ lastStart = NoStart
    /\ lastStop = NoStop
    /\ SupIdle

CrashLoopNext ==
    \/ CrashTick
    \/ CrashLoopTop
    \/ CrashServeFails
    \/ CrashLoopBreak

CrashLoopSpec == CrashLoopInit /\ [][CrashLoopNext]_vars

\* C11: six transport failures within one hour are fatal, the transport being
\* restarted after each of the first five; failures that each come more than
\* an hour after the previous one are never fatal.
C11_CrashLoopThresholds ==
    /\ (loop.pc = "run" /\ Len(crashLog.ages) >= 6) => loop.restartCount > MaxRestartCount
    /\ crashed = "fatal" => crashLog.n >= 6
    /\ crashLog.spaced => crashed # "fatal"

\* C12: the serving loop becomes fatal only if some one-hour window holds six
\* of the transport failures.
C12_RollingWindow == crashed = "fatal" => crashLog.six

----------------------------------------------------------------------------
(* The PluginManager and its servers.  A server is a record here: the      *)
(* manager only calls Devices(), Start() and Stop() on it, and a call is   *)
(* one step of the manager's single goroutine.                             *)

\* a bucket of a Device Map: the resource name and the number of devices
Bucket(res, ndev) == [res |-> res, ndev |-> ndev]

\* the Device Maps a load can publish, as sets of buckets (an empty map: no
\* device was found; a bucket may be empty)
DeviceMaps ==
    { {},
      {Bucket("gpu", 2)},
      {Bucket("gpu", 0), Bucket("mig", 2)},
      {Bucket("gpu", 2), Bucket("mig", 2)} }

\* p.devices: nil, or the map that was published
NilMap == [published |-> FALSE, buckets |-> {}]

Published(m) == [published |-> TRUE, buckets |-> m]

\* no more RestartPlugins runs, backoff retries and repeated shutdown rounds
\* than this are followed
MaxRestarts == 1
MaxRetries == 1
MaxCalls == 2

\* NewNvidiaDevicePlugin(resourceName, devices), as a record
NewPlugin(res, ndev, gen) ==
    [res |-> res, gen |-> gen, ndev |-> ndev, grpc |-> "new", service |-> FALSE,
     stopCh |-> "open", registered |-> FALSE, crashing |-> FALSE, starts |-> 0, stops |-> 0,
     closes |-> 0, early |-> FALSE]

\* cleanup on a server record: close(plugin.stop); closes (ghost) counts the
\* close calls on the channel
PluginCleanup(p) ==
    IF p.stopCh = "closed"
    THEN [p |-> [p EXCEPT !.closes = Min(@ + 1, MaxCalls)], result |-> "panic"]
    ELSE [p |-> [p EXCEPT !.stopCh = "closed", !.closes = @ + 1], result |-> "ok"]

\* NvidiaDevicePlugin.Stop on a server record; files is the set of resources
\* whose socket file exists.  The set of the possible outcomes.  early
\* (ghost) says that Stop was called on a server before its first Start
PluginStop(p, files) ==
    LET halted == [p EXCEPT !.grpc = "stopped", !.registered = FALSE,
                            !.stops = Min(@ + 1, MaxCalls),
                            !.early = @ \/ p.starts = 0]
        cleaned == PluginCleanup(halted)
    IN  {[p |-> cleaned.p, files |-> files \ {p.res}, result |-> cleaned.result]}
        \cup (IF p.res \in files
              THEN {[p |-> halted, files |-> files, result |-> "err"]}
              ELSE {})

\* the end of a Start whose Serve failed: cleanup, return err
PluginServeFailed(p, files) ==
    LET cleaned == PluginCleanup(p)
    IN  [p |-> cleaned.p, files |-> files,
         result |-> IF cleaned.result = "panic" THEN "panic" ELSE "err"]

\* Start after net.Listen succeeded: RegisterDevicePluginServer, the serving
\* goroutine, the dial, Register
PluginServing(p, files) ==
    IF p.service
    THEN {[p |-> p, files |-> files, result |-> "fatal"]}
    ELSE LET q == [p EXCEPT !.service = TRUE]
         IN  IF q.grpc = "stopped"
             THEN \* Serve returns ErrServerStopped at once, again and again:
                  \* the goroutine ends the process, unless the dial gives
                  \* up first
                  {[p |-> q, files |-> files, result |-> "fatal"],
                   PluginServeFailed([q EXCEPT !.crashing = TRUE], files)}
             ELSE LET r == [q EXCEPT !.grpc = "serving"]
                  IN  {[p |-> [r EXCEPT !.registered = TRUE], files |-> files, result |-> "ok"],
                       PluginServeFailed(r, files)}
                      \cup {[o EXCEPT !.result = IF @ = "panic" THEN "panic" ELSE "err"] :
                               o \in PluginStop(r, files)}

\* NvidiaDevicePlugin.Start on a server record: the set of the possible
\* outcomes.  Serve removes the socket file (ignoring an error) and listens;
\* a file that could not be removed makes net.Listen fail.
PluginStart(p, files) ==
    LET q == [p EXCEPT !.starts = Min(@ + 1, MaxCalls)]
    IN  {PluginServeFailed(q, files \ {q.res})}
        \cup (IF q.res \in files THEN {PluginServeFailed(q, files)} ELSE {})
        \cup PluginServing(q, (files \ {q.res}) \cup {q.res})

\* (mutant) no server is taken as empty
HasSomeDevices(p) == FALSE

\* len(p.Devices()) == 0
HasNoDevices(p) == p.ndev = 0

\* the state a pass over p.plugins works on
PassState(ps, files) ==
    [plugins |-> ps, files |-> files, crashed |-> "no", restart |-> FALSE,
     attempted |-> {}, started |-> 0]

\* stopPlugins from the i-th server on: Stop on every server that has
\* devices, going on after an error; a panic ends the process
RECURSIVE StopFrom(_, _)
StopFrom(i, st) ==
    IF i > Len(st.plugins) \/ st.crashed # "no" THEN {st}
    ELSE IF HasNoDevices(st.plugins[i]) THEN StopFrom(i + 1, st)
    ELSE UNION { StopFrom(i + 1, [st EXCEPT !.plugins[i] = o.p,
                                           !.files = o.files,
                                           !.crashed = IF o.result = "panic" THEN "panic" ELSE "no"]) :
                 o \in PluginStop(st.plugins[i], st.files) }

stopPlugins(st) == StopFrom(1, st)

\* the loop of startPlugins from the i-th server on: Start on every server
\* that has devices, up to the first failure (break)
RECURSIVE StartFrom(_, _)
StartFrom(i, st) ==
    IF i > Len(st.plugins) \/ st.crashed # "no" \/ st.restart THEN {st}
    ELSE IF HasNoDevices(st.plugins[i]) THEN StartFrom(i + 1, st)
    ELSE UNION { StartFrom(i + 1, [st EXCEPT !.plugins[i] = o.p,
                                            !.files = o.files,
                                            !.crashed = IF o.result \in {"panic", "fatal"}
                                                        THEN o.result ELSE "no",
                                            !.restart = o.result = "err",
                                            !.attempted = @ \cup {i},
                                            !.started = IF o.result = "ok" THEN @ + 1 ELSE @]) :
                 o \in PluginStart(st.plugins[i], st.files) }

\* startPlugins: the possible outcomes of a pass over the servers ps
startPlugins(started, ps, files) ==
    UNION { StartFrom(1, st) :
            st \in IF started THEN stopPlugins(PassState(ps, files)) ELSE {PassState(ps, files)} }

\* the servers loadPlugins makes of the Device Map m, in the order the map
\* iteration gives them
PluginLists(m, gen) ==
    { [i \in 1..Cardinality(m) |-> NewPlugin(order[i].res, order[i].ndev, gen)] :
      order \in { o \in [1..Cardinality(m) -> m] :
                    \A i, j \in DOMAIN o : i # j => o[i] # o[j] } }

\* (mutant) a failed load leaves the servers it made so far
loadPluginsPartial(gen) ==
    {[err |-> TRUE, devices |-> NilMap, plugins |-> <<NewPlugin("gpu", 2, gen)>>]}
    \cup UNION { {[err |-> FALSE, devices |-> Published(m), plugins |-> ps] : ps \in PluginLists(m, gen)} :
                  m \in DeviceMaps }

\* loadPlugins: NewDeviceMap fails (nothing is assigned), or its map is
\* published and one server is made per bucket
loadPlugins(gen) ==
    {[err |-> TRUE, devices |-> NilMap, plugins |-> <<>>]}
    \cup UNION { {[err |-> FALSE, devices |-> Published(m), plugins |-> ps] : ps \in PluginLists(m, gen)} :
                  m \in DeviceMaps }

\* what a pass leaves in the ghost record
PassRecord(kind, st) ==
    [kind      |-> kind,
     failed    |-> st.restart,
     attempted |-> {st.plugins[i].res : i \in st.attempted},
     nonEmpty  |-> {st.plugins[i].res : i \in {i \in DOMAIN st.plugins : ~HasNoDevices(st.plugins[i])}},
     started   |-> st.started]

AfterPass(kind, st) ==
    [history EXCEPT !.passes = IF st.crashed = "no" THEN Min(@ + 1, MaxCalls + 1) ELSE @,
                    !.okPasses = IF st.crashed = "no" /\ ~st.restart THEN Min(@ + 1, MaxCalls) ELSE @,
                    !.pass = PassRecord(kind, st),
                    !.died = IF st.crashed = "no" THEN "no" ELSE kind]

\* the timer startPlugins leaves: time.After(30 * time.Second) after a failure
Armed(timer, st) == IF st.restart THEN "pending" ELSE timer

\* NewPluginManager(migStrategy, ready): the parameter `ready` is not stored.
\* readyC is the channel of the CloseOnce that main passes in.
NewPluginManager(ready) ==
    [pc |-> "new", started |-> FALSE, restart |-> FALSE, restartTimeout |-> "nil",
     ready |-> "nil", readyC |-> "open", ctxDone |-> FALSE, watcher |-> "none",
     devices |-> NilMap, files |-> {}, gen |-> 0]

\* p.ready.Close() of Start: a nil p.ready panics; pluginReady.Close closes
\* the channel once (sync.Once)
ReadyClose(m) == IF m.ready = "nil" THEN "panic" ELSE "closed"

\* (mutant) the servers of the last generation stay in the list
DiscardNothing(ps) == ps

\* p.plugins = make([]Interface, 0)
Discard(ps) == <<>>

\* some server of ps still serves or is registered
Live(ps) == \E i \in DOMAIN ps : ps[i].grpc = "serving" \/ ps[i].registered

\* PluginManager.Start up to its loop: watch.Files, loadPlugins,
\* startPlugins, p.ready.Close()
ManagerStart ==
    /\ Running /\ manager.pc = "new"
    /\ \E watched \in BOOLEAN, l \in loadPlugins(1) :
          IF ~watched
          THEN /\ manager' = [manager EXCEPT !.pc = "returned"]
               /\ UNCHANGED <<plugins, history, crashed>>
          ELSE IF l.err
          THEN /\ manager' = [manager EXCEPT !.pc = "returned", !.watcher = "open"]
               /\ plugins' = plugins \o l.plugins
               /\ history' = [history EXCEPT !.load = [result |-> "failed", pass |-> FALSE]]
               /\ UNCHANGED crashed
          ELSE \E st \in startPlugins(manager.started, plugins \o l.plugins, manager.files) :
               LET closed == IF st.crashed = "no" THEN ReadyClose(manager) ELSE "no"
               IN  /\ plugins' = st.plugins
                   /\ crashed' = IF st.crashed # "no" THEN st.crashed
                                 ELSE IF closed = "panic" THEN "panic" ELSE "no"
                   /\ manager' = [manager EXCEPT
                                     !.pc = IF crashed' = "no" THEN "loop" ELSE @,
                                     !.watcher = "open",
                                     !.devices = l.devices,
                                     !.gen = 1,
                                     !.started = TRUE,
                                     !.files = st.files,
                                     !.restartTimeout = Armed(@, st),
                                     !.readyC = IF closed = "closed" THEN "closed" ELSE @]
                   /\ history' = [AfterPass("first", st) EXCEPT
                                     !.load = [result |-> "ok", pass |-> TRUE],
                                     !.readyFired = IF closed = "closed" /\ manager.readyC = "open"
                                                    THEN @ + 1 ELSE @,
                                     !.readyPanic = closed = "panic"]
    /\ UNCHANGED <<devices, allocVars, grpc, service, listener, sockFile, stopCh, registered,
                   startPC, loop, sessions, events, ghostVars, clockVars, buildVars, iter>>

\* pluginapi.KubeletSocket, and another path of the watched directory
KubeletSocket == "kubelet.sock"

OtherSocket == "nvidia-gpu.sock"

\* the events of the watcher: a path and the set of operations of event.Op
FsEvents ==
    [name : {KubeletSocket, OtherSocket},
     op : {{"Create"}, {"Create", "Write"}, {"Write"}, {"Remove"}, {"Chmod"}}]

\* (mutant) the path of the event is not looked at
IsAnyCreate(event) == "Create" \in event.op

\* event.Name == pluginapi.KubeletSocket && event.Op&fsnotify.Create == fsnotify.Create
IsKubeletCreate(event) == event.name = KubeletSocket /\ "Create" \in event.op

\* what an iteration of the loop leaves in the ghost record: its trigger,
\* what it called, whether the map was rebuilt, whether it changed the
\* manager or its servers, whether a call of Restart still waits for a
\* restartPlugins that begins after it, and whether the StartPlugins pass
\* before the iteration had ended with a start failure
Iteration(trigger, event, ran) ==
    [trigger |-> trigger, event |-> event, ran |-> ran,
     rebuilt |-> \/ manager'.devices # manager.devices
                 \/ manager'.gen # manager.gen
                 \/ history'.restarts # history.restarts
                 \/ history'.load # history.load,
     changed |-> <<manager', plugins', crashed'>> # <<manager, plugins, crashed>>,
     asked |-> iter.asked,
     lastFailed |-> history.pass.failed]

\* a call of Restart whose store lands while restartPlugins runs: the store
\* of the pass (p.restart = false, its last statement) comes after it, or
\* the flag was set already and the pass does not reach its last statement
RestartDuringPass(during) ==
    during => \/ history'.load.result = "ok" /\ crashed' = "no"
              \/ manager.restart

\* an iteration that ran restartPlugins: the calls of Restart made before
\* it began are served, one made while it ran is not
restartIteration(trigger, event, during) ==
    [Iteration(trigger, event, "restart") EXCEPT !.asked = during]

\* the channel of time.After(30 * time.Second) delivers
TimerFires ==
    /\ Running /\ manager.pc = "loop"
    /\ manager.restartTimeout = "pending"
    /\ manager' = [manager EXCEPT !.restartTimeout = "due"]
    /\ UNCHANGED <<devices, allocVars, serverVars, clockVars, buildVars, plugins, history, iter>>

\* case <-p.restartTimeout: p.startPlugins(); p.restartTimeout = nil
LoopRetry ==
    /\ Running /\ manager.pc = "loop"
    /\ manager.restartTimeout = "due"
    /\ history.retries < MaxRetries
    /\ \E st \in startPlugins(manager.started, plugins, manager.files) :
          /\ plugins' = st.plugins
          /\ crashed' = st.crashed
          /\ manager' = [manager EXCEPT !.started = TRUE, !.files = st.files,
                                        !.restartTimeout = "nil"]
          /\ history' = [AfterPass("retry", st) EXCEPT !.retries = @ + 1]
    /\ iter' = Iteration("timer", NoEvent, "start")
    /\ UNCHANGED <<devices, allocVars, grpc, service, listener, sockFile, stopCh, registered,
                   startPC, loop, sessions, events, ghostVars, clockVars, buildVars>>

\* restartPlugins: stopPlugins if started, discard, loadPlugins, startPlugins,
\* p.restart = false (not reached when loadPlugins fails)
restartPlugins ==
    \E s0 \in IF manager.started THEN stopPlugins(PassState(plugins, manager.files))
                ELSE {PassState(plugins, manager.files)} :
       IF s0.crashed # "no"
       THEN /\ plugins' = s0.plugins
            /\ crashed' = s0.crashed
            /\ manager' = [manager EXCEPT !.files = s0.files]
            /\ history' = [history EXCEPT !.died = "restart"]
       ELSE \E l \in loadPlugins(manager.gen + 1) :
            IF l.err
            THEN /\ plugins' = Discard(s0.plugins) \o l.plugins
                 /\ manager' = [manager EXCEPT !.files = s0.files, !.devices = NilMap]
                 /\ history' = [history EXCEPT !.restarts = @ + 1,
                                               !.retiredLive = Live(s0.plugins),
                                               !.load = [result |-> "failed", pass |-> FALSE]]
                 /\ UNCHANGED crashed
            ELSE \E st \in startPlugins(manager.started, Discard(s0.plugins) \o l.plugins, s0.files) :
                 /\ plugins' = st.plugins
                 /\ crashed' = st.crashed
                 /\ manager' = [manager EXCEPT
                                   !.devices = l.devices,
                                   !.gen = @ + 1,
                                   !.started = TRUE,
                                   !.files = st.files,
                                   !.restartTimeout = Armed(@, st),
                                   !.restart = IF st.crashed = "no" THEN FALSE ELSE @]
                 /\ history' = [AfterPass("restart", st) EXCEPT
                                   !.restarts = @ + 1,
                                   !.retiredLive = Live(s0.plugins),
                                   !.load = [result |-> "ok", pass |-> TRUE]]

\* case event := <-watcher.Events, for an event that passes the test:
\* restartPlugins
LoopKubeletEvent ==
    /\ Running /\ manager.pc = "loop"
    /\ manager.watcher = "open"
    /\ history.restarts < MaxRestarts
    /\ restartPlugins
    /\ \E event \in FsEvents, during \in BOOLEAN :
          /\ IsKubeletCreate(event)
          /\ RestartDuringPass(during)
          /\ iter' = restartIteration("event", event, during)
    /\ UNCHANGED <<devices, allocVars, grpc, service, listener, sockFile, stopCh, registered,
                   startPC, loop, sessions, events, ghostVars, clockVars, buildVars>>

\* case event := <-watcher.Events, for an event that fails the test: nothing
LoopOtherEvent ==
    /\ Running /\ manager.pc = "loop"
    /\ manager.watcher = "open"
    /\ UNCHANGED <<devices, allocVars, serverVars, clockVars, buildVars, manager, plugins, history>>
    /\ \E event \in FsEvents :
          /\ ~IsKubeletCreate(event)
          /\ iter' = Iteration("event", event, "none")

\* case err := <-watcher.Errors: the error is logged
LoopWatcherError ==
    /\ Running /\ manager.pc = "loop"
    /\ manager.watcher = "open"
    /\ UNCHANGED <<devices, allocVars, serverVars, clockVars, buildVars, manager, plugins, history>>
    /\ iter' = Iteration("error", NoEvent, "none")

\* default: if p.restart { p.restartPlugins() }; taken when no other case
\* of the select is ready
LoopDefault ==
    /\ Running /\ manager.pc = "loop"
    /\ manager.restartTimeout # "due" /\ ~manager.ctxDone
    /\ manager.restart
    /\ history.restarts < MaxRestarts
    /\ restartPlugins
    /\ \E during \in BOOLEAN :
          /\ RestartDuringPass(during)
          /\ iter' = restartIteration("flag", NoEvent, during)
    /\ UNCHANGED <<devices, allocVars, grpc, service, listener, sockFile, stopCh, registered,
                   startPC, loop, sessions, events, ghostVars, clockVars, buildVars>>

\* case <-p.ctx.Done(): watcher.Close(); p.stopPlugins() (the loop goes on)
LoopDone ==
    /\ Running /\ manager.pc = "loop"
    /\ manager.ctxDone
    /\ history.rounds < MaxCalls
    /\ \E st \in stopPlugins(PassState(plugins, manager.files)) :
          /\ plugins' = st.plugins
          /\ crashed' = st.crashed
          /\ manager' = [manager EXCEPT !.watcher = "closed", !.files = st.files]
          /\ history' = [history EXCEPT !.rounds = @ + 1,
                                        !.died = IF st.crashed = "no" THEN @ ELSE "shutdown"]
    /\ iter' = Iteration("done", NoEvent, "stop")
    /\ UNCHANGED <<devices, allocVars, grpc, service, listener, sockFile, stopCh, registered,
                   startPC, loop, sessions, events, ghostVars, clockVars, buildVars>>

\* PluginManager.Stop: p.cancel()
ManagerStop ==
    /\ Running /\ manager.pc \in {"new", "loop"}
    /\ ~manager.ctxDone
    /\ manager' = [manager EXCEPT !.ctxDone = TRUE]
    /\ UNCHANGED <<devices, allocVars, serverVars, clockVars, buildVars, plugins, history, iter>>

\* PluginManager.Restart: p.restart = true
ManagerRestart ==
    /\ Running /\ manager.pc \in {"new", "loop"}
    /\ ~manager.restart
    /\ manager' = [manager EXCEPT !.restart = TRUE]
    /\ iter' = [iter EXCEPT !.asked = TRUE]
    /\ UNCHANGED <<devices, allocVars, serverVars, clockVars, buildVars, plugins, history>>

\* the serving goroutine of a server that was started on a stopped
\* grpc.Server reaches restartCount > 5
PluginFatal ==
    /\ Running
    /\ \E i \in DOMAIN plugins : plugins[i].crashing
    /\ crashed' = "fatal"
    /\ history' = [history EXCEPT !.died = "goroutine"]
    /\ UNCHANGED <<devices, allocVars, grpc, service, listener, sockFile, stopCh, registered,
                   startPC, loop, sessions, events, ghostVars, clockVars, buildVars, manager, plugins, iter>>

\* main: Start returned, the run group interrupts its actors and the
\* termination handler calls pluginReady.Close()
MainReadyClose ==
    /\ Running /\ manager.pc = "returned"
    /\ manager.readyC = "open"
    /\ manager' = [manager EXCEPT !.readyC = "closed"]
    /\ history' = [history EXCEPT !.readyFired = @ + 1]
    /\ UNCHANGED <<devices, allocVars, serverVars, clockVars, buildVars, plugins, iter>>

\* a manager as NewPluginManager makes it (p.ready is nil), or one whose
\* field ready was assigned the CloseOnce inside package plugin
ManagerInit ==
    /\ devices = ToDevices(WholeListing)
    /\ AllocIdle
    /\ ServerIdle
    /\ ClockIdle
    /\ BuildIdle
    /\ manager \in {NewPluginManager("set"), [NewPluginManager("set") EXCEPT !.ready = "set"]}
    /\ plugins = <<>>
    /\ history = NoHistory
    /\ iter = NoIter

ManagerNext ==
    \/ ManagerStart
    \/ TimerFires
    \/ LoopRetry
    \/ LoopKubeletEvent
    \/ LoopOtherEvent
    \/ LoopWatcherError
    \/ LoopDefault
    \/ LoopDone
    \/ ManagerStop
    \/ ManagerRestart
    \/ PluginFatal
    \/ MainReadyClose

ManagerSpec == ManagerInit /\ [][ManagerNext]_vars

\* the loop of Start is one goroutine that takes a ready case of its select
\* on every iteration: a due timer is received, and the default case runs
\* when nothing else is ready
ManagerFairSpec ==
    /\ ManagerSpec
    /\ WF_vars(LoopRetry)
    /\ WF_vars(LoopDefault)

----------------------------------------------------------------------------
(* Claims on the manager (checked under ManagerSpec) *)

\* a StartPlugins pass has run to its end and the process lives on
PassCompleted == history.pass.kind # "none" /\ history.died = "no"

\* C13: a server with an empty inventory is never started nor registered by
\* any StartPlugins pass, and a pass over one empty server and one server
\* with two devices that meets no failure starts exactly one server.
C13_EmptyNeverStarted ==
    /\ \A i \in DOMAIN plugins :
          plugins[i].ndev = 0 =>
             plugins[i].starts = 0 /\ ~plugins[i].registered /\ plugins[i].grpc # "serving"
    /\ (PassCompleted /\ ~history.pass.failed /\ Len(plugins) = 2
          /\ Cardinality(history.pass.nonEmpty) = 1) => history.pass.started = 1

C13_Witness ==
    /\ PassCompleted /\ ~history.pass.failed /\ history.pass.started = 1
    /\ Len(plugins) = 2
    /\ \E i, j \in DOMAIN plugins :
          /\ plugins[i].ndev = 0 /\ plugins[i].starts = 0
          /\ plugins[j].ndev = 2 /\ plugins[j].registered

\* C14: in every StartPlugins pass every server with a non-empty inventory
\* gets a start attempt, also when an earlier start of the pass failed.
C14_SiblingsGetAttempt == PassCompleted => history.pass.attempted = history.pass.nonEmpty

C16_ReadinessOnce ==
    /\ history.readyFired <= 1
    /\ history.readyFired >= 1 => history.okPasses >= 1
    /\ ~history.readyPanic
    /\ manager.pc = "loop" => manager.readyC = "closed"

C18_LoadFailureAborts ==
    history.load.result = "failed" =>
       /\ plugins = <<>>
       /\ ~manager.devices.published
       /\ ~history.load.pass

C18_Witness ==
    /\ history.load.result = "failed"
    /\ history.restarts >= 1
    /\ history.passes >= 1

\* C19: RestartPlugins stops every server of the previous generation before
\* it starts one of the new generation, leaves no server of the previous
\* generation in the list, and the list holds exactly one server per bucket
\* of the newly built map.
C19_RestartOrder ==
    /\ ~history.retiredLive
    /\ \A i \in DOMAIN plugins : plugins[i].gen = manager.gen
    /\ manager.devices.published =>
          /\ {Bucket(plugins[i].res, plugins[i].ndev) : i \in DOMAIN plugins} = manager.devices.buckets
          /\ Len(plugins) = Cardinality(manager.devices.buckets)

C19_Witness ==
    /\ history.restarts >= 1
    /\ history.load.result = "ok"
    /\ manager.gen = 2
    /\ Len(plugins) = 2

----------------------------------------------------------------------------
(* The Device Map builder (device/device_map.go).  Names and patterns are  *)
(* sequences of one-character strings; a regular expression is a sequence  *)
(* of tokens: a quoted literal character, or ".*".                         *)

MaxNameLen == 2
MaxPatternLen == 2

NameChars == {"a", "."}

PatternChars == NameChars \cup {"*"}

\* the non-empty sequences over chars of length up to n
Words(chars, n) == UNION {[1..k -> chars] : k \in 1..n}

\* strings.Split(pattern, "*"): the literals between the stars
RECURSIVE SplitStar(_, _)
SplitStar(pattern, literal) ==
    IF pattern = <<>> THEN <<literal>>
    ELSE IF Head(pattern) = "*" THEN <<literal>> \o SplitStar(Tail(pattern), <<>>)
    ELSE SplitStar(Tail(pattern), Append(literal, Head(pattern)))

\* regexp.QuoteMeta(literal): every character stands for itself
QuoteMeta(literal) == [k \in 1..Len(literal) |-> [op |-> "lit", ch |-> literal[k]]]

\* the loop of wildCardToRegexp over the literals from the i-th on
RECURSIVE JoinLiterals(_, _)
JoinLiterals(literals, i) ==
    IF i > Len(literals) THEN <<>>
    ELSE (IF i > 1 THEN <<[op |-> "star"]>> ELSE <<>>)
         \o QuoteMeta(literals[i]) \o JoinLiterals(literals, i + 1)

wildCardToRegexp(pattern) == JoinLiterals(SplitStar(pattern, <<>>), 1)

\* the expression re matches a prefix of what follows position i of name
RECURSIVE MatchHere(_, _, _)
MatchHere(re, name, i) ==
    IF re = <<>> THEN TRUE
    ELSE IF Head(re).op = "star"
    THEN \E j \in i..Len(name) : MatchHere(Tail(re), name, j)
    ELSE i < Len(name) /\ name[i + 1] = Head(re).ch /\ MatchHere(Tail(re), name, i + 1)

\* regexp.MatchString(re, name): the expression matches somewhere in name
MatchString(re, name) == \E i \in 0..Len(name) : MatchHere(re, name, i)

\* the index of the first resource whose pattern matches name, 0 if none
FirstMatch(resources, name) ==
    LET hits == {k \in DOMAIN resources :
                    MatchString(wildCardToRegexp(resources[k].Pattern), name)}
    IN  IF hits = {} THEN 0 ELSE CHOOSE k \in hits : \A h \in hits : k <= h

\* resource.ResourceNamePrefix
ResourceNamePrefix == <<"n", "v", "i", "d", "i", "a", ".", "c", "o", "m">>

\* strings.HasPrefix
HasPrefix(s, prefix) == Len(s) >= Len(prefix) /\ SubSeq(s, 1, Len(prefix)) = prefix

\* (mutant) the name is taken as given
NewResourceAsGiven(pattern, name) == [Pattern |-> pattern, Name |-> name]

\* NewResource: the prefix is added to a name that does not start with it
NewResource(pattern, name) ==
    [Pattern |-> pattern,
     Name |-> IF ~HasPrefix(name, ResourceNamePrefix \o <<"/">>)
              THEN ResourceNamePrefix \o <<"/">> \o name
              ELSE name]

\* strings.ReplaceAll(s, old, new) for one-character old and new
ReplaceAll(s, old, new) == [k \in DOMAIN s |-> IF s[k] = old THEN new ELSE s[k]]

\* the loop of VisitMigProfiles in NewResources over the profiles from the i-th on
RECURSIVE ProfileResources(_, _)
ProfileResources(profiles, i) ==
    IF i > Len(profiles) THEN <<>>
    ELSE (IF profiles[i].C # profiles[i].G THEN <<>>
          ELSE <<NewResource(profiles[i].name,
                             ReplaceAll(<<"m", "i", "g", "-">> \o profiles[i].name, "+", "."))>>)
         \o ProfileResources(profiles, i + 1)

\* NewResources: the Resource Descriptors of a strategy; hasNVML says that
\* the adapter is present and initialises, profiles is what it enumerates
NewResources(migStrategy, hasNVML, profiles) ==
    IF migStrategy \in {"none", "single"}
    THEN <<NewResource(<<"G", "P", "U">>, ResourceNamePrefix \o <<"/", "g", "p", "u">>)>>
    ELSE IF migStrategy = "mixed"
    THEN IF ~hasNVML THEN <<>> ELSE ProfileResources(profiles, 1)
    ELSE <<>>

\* the partition profiles the adapter enumerates
MigProfiles ==
    <<[name |-> <<"a">>, C |-> 1, G |-> 1],
      [name |-> <<"a", "+", "a">>, C |-> 1, G |-> 1],
      [name |-> <<".", "a">>, C |-> 1, G |-> 2]>>

\* the lists of one or two Resource Descriptors, in declaration order; the
\* first is made from a bare name, the second (of a shorter pattern) from a
\* name with the prefix
ResourceLists ==
    LET patterns == Words(PatternChars, MaxPatternLen)
        r1(pt) == NewResource(pt, <<"g", "p", "u">>)
        r2(pt) == NewResource(pt, ResourceNamePrefix \o <<"/", "m", "i", "g">>)
    IN  {<<r1(pt)>> : pt \in patterns}
        \cup {<<r1(pt), r2(qt)>> : pt \in patterns, qt \in Words(PatternChars, MaxPatternLen - 1)}

\* the units the adapter enumerates: up to two, by name (the product name
\* of a whole device, the profile of a sub-partition)
UnitLists ==
    LET names == Words(NameChars, MaxNameLen)
    IN  {<<>>} \cup {<<[name |-> n, id |-> "u1"]>> : n \in names}
        \cup {<<[name |-> n, id |-> "u1"], [name |-> m, id |-> "u2"]>> : n \in names, m \in names}

\* what the adapter answers to the reads of one callback: GetName or
\* GetProfile, IsMigEnabled, and the property reads of BuildDevice
AdapterAnswers == [nameOK : BOOLEAN, migOK : BOOLEAN, migEnabled : BOOLEAN, deviceOK : BOOLEAN]

\* newGPUDevice: the index of the i-th whole device
newGPUDevice(i) == FormatInt(i)

\* newMigDevice: the index of the j-th sub-partition of the i-th device
newMigDevice(i, j) == FormatInt(i) \o <<":">> \o FormatInt(j)

MaxNumaNode == 1

\* dev.Topology: nil, or the one NUMA node of the device
NoTopology == [has |-> FALSE, node |-> 0]

TopologyInfo(node) == [has |-> TRUE, node |-> node]

\* what GetNumaNode meets: GetPciInfo succeeds or not, the numa_node file is
\* missing, holds no number, or holds the number node
NumaAnswers == [pci : BOOLEAN, file : {"missing", "garbage", "number"}, node : (0 - 1)..MaxNumaNode]

\* (mutant) a negative node is reported like any other
GetNumaNodeSigned(numa) ==
    IF ~numa.pci THEN [has |-> FALSE, node |-> 0, err |-> TRUE]
    ELSE IF numa.file = "missing" THEN [has |-> FALSE, node |-> 0, err |-> FALSE]
    ELSE IF numa.file = "garbage" THEN [has |-> FALSE, node |-> 0, err |-> TRUE]
    ELSE [has |-> TRUE, node |-> numa.node, err |-> FALSE]

\* nvmlDevice.GetNumaNode: (hasNuma, node, err)
GetNumaNode(numa) ==
    IF ~numa.pci THEN [has |-> FALSE, node |-> 0, err |-> TRUE]
    ELSE IF numa.file = "missing" THEN [has |-> FALSE, node |-> 0, err |-> FALSE]
    ELSE IF numa.file = "garbage" THEN [has |-> FALSE, node |-> 0, err |-> TRUE]
    ELSE IF numa.node < 0 THEN [has |-> FALSE, node |-> 0, err |-> FALSE]
    ELSE [has |-> TRUE, node |-> numa.node, err |-> FALSE]

\* what the adapter answers to the property reads of BuildDevice
PropertyReads == [uuid : BOOLEAN, paths : BOOLEAN, numa : NumaAnswers, memory : BOOLEAN, cc : BOOLEAN]

\* every read succeeds and the device is on NUMA node 0
ReadsOK == [uuid |-> TRUE, paths |-> TRUE, numa |-> [pci |-> TRUE, file |-> "number", node |-> 0],
            memory |-> TRUE, cc |-> TRUE]

\* the reads behind the answer of one callback of the build: all of them
\* succeed, or the first one fails
ReadsOf(answer) == IF answer.deviceOK THEN ReadsOK ELSE [ReadsOK EXCEPT !.uuid = FALSE]

\* the *Device of a failed BuildDevice
NilDevice == [ID |-> "", Index |-> <<>>, Health |-> "", Topology |-> NoTopology]

\* (mutant) the device is built unhealthy
BuildDeviceUnhealthy(index, unit, reads) ==
    [err |-> IF reads = ReadsOK THEN "" ELSE "uuid",
     dev |-> [ID |-> unit.id, Index |-> index, Health |-> Unhealthy, Topology |-> NoTopology]]

\* BuildDevice: the reads in the order of the code, the first failure is
\* returned; err is "" for nil
BuildDevice(index, unit, reads) ==
    LET numa == GetNumaNode(reads.numa)
    IN  IF ~reads.uuid THEN [err |-> "uuid", dev |-> NilDevice]
        ELSE IF ~reads.paths THEN [err |-> "paths", dev |-> NilDevice]
        ELSE IF numa.err THEN [err |-> "numa", dev |-> NilDevice]
        ELSE IF ~reads.memory THEN [err |-> "memory", dev |-> NilDevice]
        ELSE IF ~reads.cc THEN [err |-> "cc", dev |-> NilDevice]
        ELSE [err |-> "",
              dev |-> [ID |-> unit.id, Index |-> index, Health |-> Healthy,
                       Topology |-> IF numa.has THEN TopologyInfo(numa.node) ELSE NoTopology]]

\* DeviceMap.setEntry: BuildDevice, then d[name][dev.ID] = dev.  An entry
\* also records the name the unit was matched by and the adapter's answer
\* to IsMigEnabled
setEntry(d, res, index, unit, mig, reads) ==
    LET built == BuildDevice(index, unit, reads)
    IN  IF built.err # "" THEN [err |-> TRUE, devices |-> d]
        ELSE [err |-> FALSE,
              devices |-> {e \in d : ~(e.res = res /\ e.id = built.dev.ID)}
                          \cup {[res |-> res, id |-> built.dev.ID, name |-> unit.name,
                                 mig |-> mig, dev |-> built.dev]}]

\* the callback returns err: the enumeration stops and the build returns it
VisitFails(b, unit, mig, err) ==
    [b EXCEPT !.pc = "failed", !.err = err,
              !.last = [id |-> unit.id, mig |-> mig, outcome |-> err]]

\* the callback returns nil without an entry
VisitSkips(b, unit, mig) ==
    [b EXCEPT !.i = @ + 1, !.skipped = @ \cup {unit.id},
              !.last = [id |-> unit.id, mig |-> mig, outcome |-> "skipped"]]

\* the tail of both callbacks: the first descriptor whose pattern matches
\* gets the entry, no match is an error
VisitMatches(b, unit, mig, index, answer) ==
    LET k == FirstMatch(b.resources, unit.name)
        set == setEntry(b.devices, b.resources[k].Name, index, unit, mig, ReadsOf(answer))
    IN  IF k = 0 THEN VisitFails(b, unit, mig, "unmatched")
        ELSE IF set.err THEN VisitFails(b, unit, mig, "device")
        ELSE [b EXCEPT !.i = @ + 1,
                       !.devices = set.devices,
                       !.placed = @ \cup {unit.id},
                       !.last = [id |-> unit.id, mig |-> mig, outcome |-> "placed"]]

\* (mutant) a device with partitioning enabled is never skipped
GPUVisitAll(b, unit, answer) ==
    IF ~answer.nameOK THEN VisitFails(b, unit, FALSE, "name")
    ELSE IF ~answer.migOK THEN VisitFails(b, unit, FALSE, "mig")
    ELSE VisitMatches(b, unit, answer.migEnabled, newGPUDevice(b.i - 1), answer)

\* buildGPUDeviceMap: the callback of VisitDevices on a whole device
GPUVisit(b, unit, answer) ==
    IF ~answer.nameOK THEN VisitFails(b, unit, FALSE, "name")
    ELSE IF ~answer.migOK THEN VisitFails(b, unit, FALSE, "mig")
    ELSE IF answer.migEnabled /\ b.migStrategy # "none" THEN VisitSkips(b, unit, TRUE)
    ELSE VisitMatches(b, unit, answer.migEnabled, newGPUDevice(b.i - 1), answer)

\* buildMigDeviceMap: the callback of VisitMigDevices on a sub-partition
\* (the sub-partitions enumerated are those of device 0)
MigVisit(b, unit, answer) ==
    IF ~answer.nameOK THEN VisitFails(b, unit, TRUE, "profile")
    ELSE VisitMatches(b, unit, TRUE, newMigDevice(0, b.i - 1), answer)

\* deviceMapBuilder.build: the strategy is none of the three known ones
BuildInvalid ==
    /\ build.pc = "visit"
    /\ build.migStrategy \notin {"none", "single", "mixed"}
    /\ build' = [build EXCEPT !.pc = "failed", !.err = "strategy"]
    /\ UNCHANGED <<devices, allocVars, serverVars, clockVars, managerVars, anno>>

\* deviceMapBuilder.build: the enumeration of the strategy visits the next
\* unit, for one answer of the adapter
BuildVisit ==
    /\ build.pc = "visit"
    /\ build.migStrategy \in {"none", "single", "mixed"}
    /\ build.i <= Len(build.units)
    /\ \E answer \in AdapterAnswers :
          build' = IF build.migStrategy = "mixed"
                   THEN MigVisit(build, build.units[build.i], answer)
                   ELSE GPUVisit(build, build.units[build.i], answer)
    /\ UNCHANGED <<devices, allocVars, serverVars, clockVars, managerVars, anno>>

\* deviceMapBuilder.build: the enumeration has visited every unit; return
\* devices, nil
BuildReturn ==
    /\ build.pc = "visit"
    /\ build.migStrategy \in {"none", "single", "mixed"}
    /\ build.i > Len(build.units)
    /\ build' = [build EXCEPT !.pc = "done"]
    /\ UNCHANGED <<devices, allocVars, serverVars, clockVars, managerVars, anno>>

\* the strategy values: the three known ones and one that is none of them
Strategies == {"none", "single", "mixed", "other"}

\* NewDeviceMap: the builder of a strategy, a list of Resource Descriptors
\* (made by NewResource, or by NewResources for the strategy) and the units
\* the adapter will enumerate
BuildInit ==
    /\ devices = ToDevices(WholeListing)
    /\ AllocIdle
    /\ ServerIdle
    /\ ClockIdle
    /\ ManagerIdle
    /\ anno = NoAnno
    /\ \E migStrategy \in Strategies, us \in UnitLists :
       \E rs \in ResourceLists \cup {NewResources(migStrategy, h, MigProfiles) : h \in BOOLEAN} :
          build = [pc |-> "visit", migStrategy |-> migStrategy, resources |-> rs, units |-> us,
                   i |-> 1, devices |-> {}, placed |-> {}, skipped |-> {},
                   last |-> [id |-> "", mig |-> FALSE, outcome |-> "none"], err |-> ""]

BuildNext ==
    \/ BuildInvalid
    \/ BuildVisit
    \/ BuildReturn

BuildSpec == BuildInit /\ [][BuildNext]_vars

----------------------------------------------------------------------------
(* One call of setEntry, for every answer of the adapter to the property   *)
(* reads of BuildDevice (device/devices.go)                                *)

\* the entry of a device built before the call
EarlierEntry ==
    [res |-> ResourceNamePrefix \o <<"/", "g", "p", "u">>, id |-> "u2", name |-> <<"a">>, mig |-> FALSE,
     dev |-> BuildDevice(newGPUDevice(1), [name |-> <<"a">>, id |-> "u2"], ReadsOK).dev]

\* setEntry(name, index, device) is called by a callback of the build
SetEntryCall ==
    /\ build.pc = "entry"
    /\ LET set == setEntry(build.devices, build.res, build.index, build.unit, FALSE, build.reads)
       IN  build' = [build EXCEPT !.pc = IF set.err THEN "error" ELSE "built",
                                  !.devices = set.devices]
    /\ UNCHANGED <<devices, allocVars, serverVars, clockVars, managerVars, anno>>

DeviceInit ==
    /\ devices = ToDevices(WholeListing)
    /\ AllocIdle
    /\ ServerIdle
    /\ ClockIdle
    /\ ManagerIdle
    /\ anno = NoAnno
    /\ \E index \in {newGPUDevice(0), newMigDevice(0, 1)}, reads \in PropertyReads,
          before \in {{}, {EarlierEntry}} :
          build = [pc |-> "entry", res |-> ResourceNamePrefix \o <<"/", "g", "p", "u">>,
                   index |-> index, unit |-> [name |-> <<"a">>, id |-> "u1"], reads |-> reads,
                   devices |-> before, before |-> before]

DeviceNext == SetEntryCall

DeviceSpec == DeviceInit /\ [][DeviceNext]_vars

\* glob semantics: the whole of name matches pattern, where "*" stands for
\* any substring and every other character for itself
RECURSIVE Glob(_, _)
Glob(pattern, name) ==
    IF pattern = <<>> THEN name = <<>>
    ELSE IF Head(pattern) = "*"
    THEN \E j \in 0..Len(name) : Glob(Tail(pattern), SubSeq(name, j + 1, Len(name)))
    ELSE name # <<>> /\ Head(name) = Head(pattern) /\ Glob(Tail(pattern), Tail(name))

\* C20: after a successful build every placed unit is in exactly one
\* bucket, the bucket of the first descriptor in declaration order whose
\* pattern matches the unit's name, so every device of a bucket satisfies
\* the pattern of its resource.
C20_Classification ==
    build.pc = "done" =>
       \A u \in build.placed :
          LET entries == {e \in build.devices : e.id = u}
          IN  /\ Cardinality(entries) = 1
              /\ \A e \in entries :
                    \E k \in DOMAIN build.resources :
                       /\ build.resources[k].Name = e.res
                       /\ Glob(build.resources[k].Pattern, e.name)
                       /\ \A h \in 1..(k - 1) : ~Glob(build.resources[h].Pattern, e.name)

\* C21: a unit whose name matches no Resource Descriptor aborts the build,
\* wherever it stands in the enumeration: a build that returns without error
\* has visited only units that were skipped or match some descriptor, and no
\* entry of the map, also of the partial map of a failed build, is of a
\* unit that matches none.
C21_UnmatchedAborts ==
    /\ build.pc = "done" =>
          \A i \in DOMAIN build.units :
             \/ build.units[i].id \in build.skipped
             \/ \E k \in DOMAIN build.resources :
                   Glob(build.resources[k].Pattern, build.units[i].name)
    /\ build.pc \in {"visit", "done", "failed"} =>
          \A e \in build.devices :
             \E k \in DOMAIN build.resources : Glob(build.resources[k].Pattern, e.name)

\* C22: the matcher of the builder accepts a string exactly when the whole
\* string matches the pattern under glob semantics, for every pattern of a
\* descriptor and every name of a unit of the build.
C22_MatcherIsGlob ==
    build.pc \in {"visit", "done", "failed"} =>
       \A k \in DOMAIN build.resources : \A i \in DOMAIN build.units :
          MatchString(wildCardToRegexp(build.resources[k].Pattern), build.units[i].name)
             <=> Glob(build.resources[k].Pattern, build.units[i].name)

----------------------------------------------------------------------------
(* Replica annotation of an id and its inverse (device/devices.go): an id  *)
(* is annotated by NewAnnotatedID and the result is taken apart by Split.  *)

MaxIdLen == 3
MaxReplica == 11

IdChars == {"a", ":"}

\* the ids annotated: the empty id and the words over IdChars
AnnotatedInputs == {<<>>} \cup Words(IdChars, MaxIdLen)

\* strings.Contains(id, "::")
ContainsSeparator(id) == \E i \in 1..(Len(id) - 1) : id[i] = ":" /\ id[i + 1] = ":"

\* NewAnnotatedID(id, idx) is called
Annotate ==
    /\ anno.pc = "new"
    /\ anno' = [anno EXCEPT !.pc = "annotated", !.aid = NewAnnotatedID(anno.id, anno.idx)]
    /\ UNCHANGED <<devices, allocVars, serverVars, clockVars, managerVars, build>>

\* Split is called on the annotated id
SplitAnnotated ==
    /\ anno.pc = "annotated"
    /\ anno' = [anno EXCEPT !.pc = "split", !.out = Split(anno.aid)]
    /\ UNCHANGED <<devices, allocVars, serverVars, clockVars, managerVars, build>>

AnnoInit ==
    /\ devices = ToDevices(WholeListing)
    /\ AllocIdle
    /\ ServerIdle
    /\ ClockIdle
    /\ ManagerIdle
    /\ build = NoBuild
    /\ \E id \in AnnotatedInputs, idx \in 0..MaxReplica :
          anno = [pc |-> "new", id |-> id, idx |-> idx, aid |-> <<>>, out |-> <<<<>>, 0>>]

AnnoNext ==
    \/ Annotate
    \/ SplitAnnotated

AnnoSpec == AnnoInit /\ [][AnnoNext]_vars

\* C23: for an id that does not contain the separator "::" and a
\* non-negative index, Split of NewAnnotatedID(id, idx) returns (id, idx),
\* also when the id ends with a single ":".
C23_RoundTrip ==
    (anno.pc = "split" /\ ~ContainsSeparator(anno.id)) => anno.out = <<anno.id, anno.idx>>

----------------------------------------------------------------------------
(* Claims on the Device Map build *)

\* the build of strategy "none" over one unit and the one descriptor "*"
OneUnitOneStar ==
    /\ build.pc \in {"visit", "done", "failed"}
    /\ build.migStrategy = "none"
    /\ Len(build.units) = 1
    /\ Len(build.resources) = 1
    /\ build.resources[1].Pattern = <<"*">>

\* C24: with strategy "none", one unit and one descriptor of pattern "*",
\* the build fails only on a failed read of the adapter, and the map it
\* returns has exactly one bucket, which holds exactly one Device: its id
\* is the identity the adapter reports and its health is healthy.
C24_EndToEnd ==
    OneUnitOneStar =>
       /\ build.pc = "failed" => build.err \in {"name", "mig", "device"}
       /\ build.pc = "done" =>
             /\ Cardinality(build.devices) = 1
             /\ \A e \in build.devices :
                   /\ e.res = build.resources[1].Name
                   /\ e.dev.ID = build.units[1].id
                   /\ e.dev.Health = Healthy

C24_Witness ==
    /\ OneUnitOneStar
    /\ build.pc = "done"
    /\ build.placed = {build.units[1].id}

\* the reserved domain prefix of resource names: "nvidia.com/"
DomainPrefix == ResourceNamePrefix \o <<"/">>

\* C25: for every strategy, the name of every Resource Descriptor made by
\* NewResource or NewResources, and so every key of the Device Map, starts
\* with "nvidia.com/", once: a bare name got the prefix added, a name that
\* had it was left as it was.
C25_DomainPrefix ==
    build.pc \in {"visit", "done", "failed"} =>
       /\ \A k \in DOMAIN build.resources :
             /\ HasPrefix(build.resources[k].Name, DomainPrefix)
             /\ ~HasPrefix(build.resources[k].Name, DomainPrefix \o DomainPrefix)
       /\ \A e \in build.devices : HasPrefix(e.res, DomainPrefix)

C25_Witness ==
    /\ build.pc = "done"
    /\ Len(build.resources) = 2
    /\ {e.res : e \in build.devices} =
          {DomainPrefix \o <<"g", "p", "u">>, DomainPrefix \o <<"m", "i", "g">>}

\* C26: a whole unit with partitioning enabled is in the map only under
\* strategy "none"; under "single" the callback on such a unit returns
\* without entry and without error; the entries of sub-partitions exist only
\* under "mixed", which has no others; a strategy that is none of the three
\* fails the build, with no map.
C26_EnumerationByStrategy ==
    build.pc \in {"visit", "done", "failed"} =>
       /\ \A e \in build.devices :
             /\ (e.mig /\ ~IsMigDevice(e.dev)) => build.migStrategy = "none"
             /\ IsMigDevice(e.dev) <=> build.migStrategy = "mixed"
       /\ (build.migStrategy = "single" /\ build.last.mig) => build.last.outcome = "skipped"
       /\ build.skipped # {} => build.migStrategy = "single"
       /\ build.migStrategy \notin {"none", "single", "mixed"} =>
             /\ build.pc # "done"
             /\ build.devices = {}
             /\ build.pc = "failed" => build.err = "strategy"

C26_Witness ==
    /\ build.pc = "done"
    /\ build.migStrategy = "single"
    /\ build.skipped = {"u1"}
    /\ build.placed = {"u2"}

----------------------------------------------------------------------------
(* Claims on the delivery of health events *)

\* the health events received by the sessions 1..n together
RECURSIVE ReceivedUpTo(_)
ReceivedUpTo(n) == IF n = 0 THEN 0 ELSE ReceivedUpTo(n - 1) + sessions[n].received

\* C27: every value taken from plugin.health is received by exactly one
\* watch session, so the receipts of all sessions add up to the number of
\* events, and a session sends the device list once at its start and again
\* only for an event that it received itself.
C27_CompetingConsumers ==
    /\ ReceivedUpTo(NumSessions) = events
    /\ \A s \in SessionIDs : Len(sessions[s].sent) <= 1 + sessions[s].received

C27_Witness ==
    /\ events = 1
    /\ \A s \in SessionIDs : sessions[s].pc = "watching"
    /\ sessions[1].received = 1
    /\ Len(sessions[1].sent) = 2
    /\ \A s \in SessionIDs \ {1} : sessions[s].received = 0 /\ Len(sessions[s].sent) = 1

----------------------------------------------------------------------------
(* Claims on the end of Start *)

\* C28: a Start call that has begun returns, with success or failure (or
\* the process has ended), also when the node agent cannot be dialled and
\* when it accepts the connection and never answers the Register call.
C28_StartReturns ==
    (startPC # "idle") ~> (startPC = "idle" \/ crashed # "no")

----------------------------------------------------------------------------
(* Claims on the triggers of the manager's loop *)

\* C29: an iteration of the loop runs restartPlugins exactly when it
\* received a filesystem event whose path is the node agent's socket and
\* whose operation includes creation, or found the restart flag set; the
\* expiry of the backoff timer runs startPlugins and rebuilds no map; any
\* other filesystem event and a watcher error run nothing and change
\* nothing.
C29_RestartTriggers ==
    /\ iter.ran = "restart" <=>
          \/ /\ iter.trigger = "event"
             /\ iter.event.name = KubeletSocket
             /\ "Create" \in iter.event.op
          \/ iter.trigger = "flag"
    /\ iter.trigger = "timer" => (iter.ran = "start" /\ ~iter.rebuilt)
    /\ iter.trigger = "error" => (iter.ran = "none" /\ ~iter.changed)
    /\ (iter.trigger = "event" /\ iter.ran # "restart") => (iter.ran = "none" /\ ~iter.changed)

C29_Witness ==
    /\ iter.trigger = "event"
    /\ iter.event = [name |-> KubeletSocket, op |-> {"Create", "Write"}]
    /\ iter.ran = "restart"
    /\ iter.rebuilt
    /\ history.restarts = 1

----------------------------------------------------------------------------
(* Claims on the choice of the allocation policy *)

\* C30: a preferred-allocation request is served by the topology-aligned
\* policy exactly when no device of the inventory has ":" in its topology
\* index, no device has the path /dev/dxg, and no id of the request's
\* available list contains "::"; every other request is served by the
\* replica-distributed policy.
C30_PolicySelection ==
    call.op = "preferred" =>
       /\ call.policy \in {"aligned", "distributed"}
       /\ call.policy = "aligned" <=>
             /\ \A k \in DOMAIN devices :
                   /\ \A i \in 1..Len(devices[k].Index) : devices[k].Index[i] # ":"
                   /\ \A i \in 1..Len(devices[k].Paths) : devices[k].Paths[i] # "/dev/dxg"
             /\ \A i \in 1..Len(call.available) : ~ContainsSeparator(call.available[i])

C30_Witness ==
    /\ Returned("preferred")
    /\ call.policy = "distributed"
    /\ \E k \in DOMAIN devices : devices[k].Paths = <<"/dev/dxg">>
    /\ ~ret.err

----------------------------------------------------------------------------
(* Claims on the build of one Device *)

\* some property read of the call failed: identity, paths, memory, compute
\* capability, or NUMA (the PCI information, or a file that holds no number)
SomeReadFailed ==
    \/ ~build.reads.uuid
    \/ ~build.reads.paths
    \/ ~build.reads.memory
    \/ ~build.reads.cc
    \/ ~build.reads.numa.pci
    \/ build.reads.numa.file = "garbage"

\* C31: a failed property read makes setEntry return an error and leaves the
\* map as it was; with no failed read the device is built, healthy, and has
\* topology information exactly when a non-negative NUMA node was read (a
\* missing NUMA file and a negative node are no errors).
C31_PropertyReads ==
    /\ build.pc = "error" => (SomeReadFailed /\ build.devices = build.before)
    /\ build.pc = "built" =>
          /\ ~SomeReadFailed
          /\ build.before \subseteq build.devices
          /\ Cardinality(build.devices) = Cardinality(build.before) + 1
          /\ \A e \in build.devices \ build.before :
                /\ e.dev.ID = build.unit.id
                /\ e.dev.Index = build.index
                /\ e.dev.Health = Healthy
                /\ e.dev.Topology.has <=>
                      (build.reads.numa.file = "number" /\ build.reads.numa.node >= 0)
                /\ e.dev.Topology.has => e.dev.Topology.node = build.reads.numa.node

C31_Witness ==
    /\ build.pc = "built"
    /\ build.reads.numa.file = "number"
    /\ build.reads.numa.node < 0
    /\ build.before # {}
    /\ \E e \in build.devices : e.id = "u1" /\ e.dev.Topology = NoTopology /\ e.dev.Health = Healthy

----------------------------------------------------------------------------
(* The inventory of a registered server under protocol calls and health    *)
(* events: the server has been started, every watch session has sent its   *)
(* first list                                                              *)

\* the inventories of two devices
SmallListings == {WholeListing, MigListing, WslListing}

\* a server after a successful Start
Registered ==
    /\ grpc = "serving"
    /\ service = TRUE
    /\ listener = "open"
    /\ sockFile = TRUE
    /\ stopCh = "open"
    /\ registered = TRUE
    /\ startPC = "idle"
    /\ loop = [pc |-> "serving", restartCount |-> 0]
    /\ crashed = "no"
    /\ lastStart = [NoStart EXCEPT !.result = "ok", !.attempted = TRUE]
    /\ lastStop = NoStop

\* every session is past its first Send
AllWatching ==
    sessions = [s \in SessionIDs |->
                   [NoSession EXCEPT !.pc = "watching",
                                     !.sent = <<GetPluginDevices(devices)>>,
                                     !.seen = <<HealthOf(devices)>>]]

InventoryInit ==
    /\ devices \in {ToDevices(l) : l \in SmallListings}
    /\ AllocIdle
    /\ Registered
    /\ AllWatching
    /\ events = 0
    /\ SupIdle

InventoryNext ==
    \/ AllocNext
    \/ \E s \in SessionIDs : \E d \in DOMAIN devices : ListAndWatchHealth(s, d)

InventorySpec == InventoryInit /\ [][InventoryNext]_vars

\* C32: no step changes the set of ids of the inventory, and a step changes
\* a device only by setting its health to unhealthy, when a watch session
\* receives a health event; the protocol calls and the inventory operations
\* they use change no device, and no device becomes healthy again.
C32_OnlyHealthFlips ==
    [][/\ DOMAIN devices' = DOMAIN devices
       /\ \A k \in DOMAIN devices :
             \/ devices'[k] = devices[k]
             \/ /\ devices'[k] = [devices[k] EXCEPT !.Health = Unhealthy]
                /\ events' = events + 1
                /\ \E s \in SessionIDs : sessions'[s].received = sessions[s].received + 1
                /\ call' = call]_vars

C32_Witness ==
    /\ \E k \in DOMAIN devices : devices[k].Health = Unhealthy
    /\ \E k \in DOMAIN devices : devices[k].Health = Healthy
    /\ Returned("allocate")
    /\ ~ret.err
    /\ events = 1

----------------------------------------------------------------------------
(* Claims on the teardown and the restart of the manager's servers *)

LoopOver == ~Running \/ manager.pc # "loop" \/ manager.ctxDone

\* the flag is set and the pass it asks for lies beyond the passes explored
PassBeyondBounds ==
    /\ manager.restart
    /\ \/ history.restarts >= MaxRestarts
       \/ manager.restartTimeout = "due" /\ history.retries >= MaxRetries

====
